---------------------------- MODULE Spec2Model ----------------------------
(***************************************************************************)
(* Model of the PDF transformation service (pdfService): splitPdf with its *)
(* inline page-range parser, mergePdfs and imagesToPdf.                    *)
(*                                                                         *)
(* Strings are sequences of one-character strings.  A document is the      *)
(* sequence of its pages.  Each operation is an async function; its        *)
(* position is kept in a pc variable.                                      *)
(***************************************************************************)
EXTENDS Integers, Sequences, FiniteSets, TLC

(***************************************************************************)
(* Bounds of the model.                                                    *)
(***************************************************************************)
MaxLen == 4        \* longest enumerated range expression
MaxPages == 3      \* largest page count of an enumerated source document
MaxFiles == 3      \* longest input list of mergePdfs
MaxImages == 3     \* longest input list of imagesToPdf

Range(f) == {f[i] : i \in DOMAIN f}

(***************************************************************************)
(* Characters and strings.                                                 *)
(***************************************************************************)
Alphabet == {"1", "2", "3", "-", ",", " ", "a"}

WhiteSpace == {" ", "\t", "\n", "\r", "\f"}

DecDigits == <<"0", "1", "2", "3", "4", "5", "6", "7", "8", "9">>

HexDigits == DecDigits \o <<"a", "b", "c", "d", "e", "f">>

HexDigitsUpper == DecDigits \o <<"A", "B", "C", "D", "E", "F">>

Strs(n) == UNION {[1..k -> Alphabet] : k \in 0..n}

\* examples of the specification, longer than MaxLen
Str_1_3_5 == <<"1", "-", "3", ",", "5">>
Str_5_2 == <<"5", "-", "2">>
Str_5_2_3 == <<"5", "-", "2", ",", "3">>
Str_1_abc_3 == <<"1", ",", " ", "a", "b", "c", ",", " ", "3">>
Str_1_2_10 == <<"1", "-", "2", ",", "1", "0">>
Str_5_1_2 == <<"5", ",", "1", "-", "2">>
Str_sp_range == <<" ", "2", " ", "-", " ", "3", " ", ",", " ", "1", " ">>
Str_hex == <<"0", "x", "a">>
Str_1_3_2_4 == <<"1", "-", "3", ",", "2", "-", "4">>

Examples ==
  {Str_1_3_5, Str_5_2, Str_5_2_3, Str_1_abc_3, Str_1_2_10, Str_5_1_2,
   Str_sp_range, Str_hex, Str_1_3_2_4}

(***************************************************************************)
(* String.prototype.includes / split / trim.                               *)
(***************************************************************************)
includes(s, c) == \E i \in 1..Len(s) : s[i] = c

RECURSIVE split(_, _)
split(s, sep) ==
  IF ~includes(s, sep) THEN <<s>>
  ELSE LET i == CHOOSE i \in 1..Len(s) :
                  s[i] = sep /\ \A j \in 1..(i - 1) : s[j] # sep
       IN <<SubSeq(s, 1, i - 1)>> \o split(SubSeq(s, i + 1, Len(s)), sep)

RECURSIVE trimStart(_)
trimStart(s) ==
  IF s # <<>> /\ Head(s) \in WhiteSpace THEN trimStart(Tail(s)) ELSE s

RECURSIVE trimEnd(_)
trimEnd(s) ==
  IF s # <<>> /\ s[Len(s)] \in WhiteSpace
  THEN trimEnd(SubSeq(s, 1, Len(s) - 1)) ELSE s

trim(s) == trimEnd(trimStart(s))

(***************************************************************************)
(* parseInt(string) with no radix argument, as ECMAScript defines it:      *)
(* leading white space is skipped, an optional sign is read, a 0x / 0X     *)
(* prefix selects radix 16, then the longest prefix of digits is           *)
(* converted; what follows the digits is ignored; no digit gives NaN.      *)
(* A number is a record [nan, val].                                        *)
(***************************************************************************)
NaN == [nan |-> TRUE, val |-> 0]

Num(n) == [nan |-> FALSE, val |-> n]

isNaN(x) == x.nan

DigitVal(c, radix) ==
  IF \E d \in 1..radix : HexDigits[d] = c \/ HexDigitsUpper[d] = c
  THEN (CHOOSE d \in 1..radix : HexDigits[d] = c \/ HexDigitsUpper[d] = c) - 1
  ELSE -1

RECURSIVE DigitPrefixLen(_, _)
DigitPrefixLen(s, radix) ==
  IF s # <<>> /\ DigitVal(Head(s), radix) >= 0
  THEN 1 + DigitPrefixLen(Tail(s), radix) ELSE 0

RECURSIVE DigitsValue(_, _, _)
DigitsValue(s, n, radix) ==
  IF n = 0 THEN 0
  ELSE DigitsValue(s, n - 1, radix) * radix + DigitVal(s[n], radix)

parseInt(str) ==
  LET s0 == trimStart(str)
      neg == s0 # <<>> /\ Head(s0) = "-"
      s1 == IF s0 # <<>> /\ Head(s0) \in {"+", "-"} THEN Tail(s0) ELSE s0
      hex == Len(s1) >= 2 /\ s1[1] = "0" /\ s1[2] \in {"x", "X"}
      s2 == IF hex THEN SubSeq(s1, 3, Len(s1)) ELSE s1
      radix == IF hex THEN 16 ELSE 10
      n == DigitPrefixLen(s2, radix)
  IN IF n = 0 THEN NaN
     ELSE Num((IF neg THEN -1 ELSE 1) * DigitsValue(s2, n, radix))

(***************************************************************************)
(* Set<number>: a JavaScript Set keeps its members in insertion order and  *)
(* add() of a member already present changes nothing.                      *)
(***************************************************************************)
SetAdd_NoDedupe(set, x) == Append(set, x)

SetAdd(set, x) == IF x \in Range(set) THEN set ELSE Append(set, x)

\* mutant: the array is left in insertion order
SortAsc_Unsorted(arr) == arr

\* Array.prototype.sort((a, b) => a - b) on an array of distinct numbers
RECURSIVE SortAsc(_)
SortAsc(arr) ==
  IF arr = <<>> THEN <<>>
  ELSE LET m == CHOOSE i \in 1..Len(arr) : \A j \in 1..Len(arr) : arr[i] <= arr[j]
       IN <<arr[m]>> \o SortAsc(SubSeq(arr, 1, m - 1) \o SubSeq(arr, m + 1, Len(arr)))


(***************************************************************************)
(* Documents.  A page of a loaded PDF file is named by the position of the *)
(* file in the input and its 0-based index; a drawn image page by the      *)
(* position of the image; width and height are kept for image pages.       *)
(***************************************************************************)
SrcPage(f, i) == [kind |-> "pdf", of |-> f, no |-> i, width |-> 0, height |-> 0]

ImagePage(k, w, h) == [kind |-> "image", of |-> k, no |-> 0, width |-> w, height |-> h]

\* PDFDocument.addPage() with no size: a blank A4 page (595.28 x 841.89 pt)
DefaultPage == [kind |-> "blank", of |-> 0, no |-> 0, width |-> 595, height |-> 842]

\* PDFDocument.load: the pages of a parseable file
load(f, pdfFile) == [i \in 1..pdfFile.numPages |-> SrcPage(f, i - 1)]

\* PDFDocument.getPageIndices
getPageIndices(pdf) == [i \in 1..Len(pdf) |-> i - 1]

\* PDFDocument.copyPages(src, indices): one copy per index, in the order given
copyPages(src, idx) == [k \in 1..Len(idx) |-> src[idx[k] + 1]]

\* PDFDocument.save(): with the default options (addDefaultPage = true) a
\* document that has no page gets one blank page before it is serialized
save(doc) == IF Len(doc) = 0 THEN <<DefaultPage>> ELSE doc

Pending == [kind |-> "pending", pages |-> <<>>, error |-> ""]

Bytes(doc) == [kind |-> "bytes", pages |-> doc, error |-> ""]

Failure(msg) == [kind |-> "error", pages |-> <<>>, error |-> msg]

LoadError == "Failed to parse PDF document"

RangeError == "Invalid page range"

EmbedError == "Failed to embed image"

VARIABLES
  file, rangeStr, srcPdf, newPdf, totalPages, pagesToKeep, parts, partIdx,
  indices, splitPc, splitResult,
  files, mergedPdf, fileIdx, mergePc, mergeResult,
  images, badImage, pdfDoc, imageIdx, imagesPc, imagesResult

splitVars ==
  <<file, rangeStr, srcPdf, newPdf, totalPages, pagesToKeep, parts, partIdx,
    indices, splitPc, splitResult>>

mergeVars == <<files, mergedPdf, fileIdx, mergePc, mergeResult>>

imagesVars == <<images, badImage, pdfDoc, imageIdx, imagesPc, imagesResult>>


(***************************************************************************)
(* splitPdf(file, rangeStr)                                                *)
(***************************************************************************)
PdfFiles(n) == [ok : BOOLEAN, numPages : 0..n]

\* the numbers of a finite set in ascending order
Ascending(S) ==
  [k \in 1..Cardinality(S) |->
     CHOOSE x \in S : Cardinality({y \in S : y < x}) = k - 1]

rangeLoop_Plain(i, end, total, set) ==
  set \o Ascending({x - 1 : x \in {y \in i..end : y >= 1 /\ y <= total
                                                    /\ (y - 1) \notin Range(set)}})

\* mutant: a range that is not wholly inside [1, totalPages] is dropped
rangeLoop_DropWhole(i, end, total, set) ==
  IF i >= 1 /\ end <= total THEN rangeLoop_Plain(i, end, total, set) ELSE set

\* mutant: a range with start > end is read backwards
rangeLoop_Swapped(i, end, total, set) ==
  IF i > end THEN rangeLoop_Plain(end, i, total, set)
  ELSE rangeLoop_Plain(i, end, total, set)

\* mutant: the end of a range is exclusive (i < end)
rangeLoop_ExclusiveEnd(i, end, total, set) ==
  rangeLoop_Plain(i, end - 1, total, set)

\* for (let i = start; i <= end; i++) if (i >= 1 && i <= totalPages) add(i - 1)
\* the loop visits i = start, start + 1, ..., end in turn, so the members it
\* adds are appended in ascending order: every i - 1 with start <= i <= end
\* and 1 <= i <= totalPages that the set does not hold yet
rangeLoop(i, end, total, set) ==
  LET added == {x \in i..end : x >= 1 /\ x <= total /\ (x - 1) \notin Range(set)}
  IN set \o Ascending({x - 1 : x \in added})

\* the body of parts.forEach(part => ...)
forEachPart(part, total, set) ==
  IF includes(part, "-")
  THEN LET pieces == split(part, "-")
           start == parseInt(trim(pieces[1]))
           end == parseInt(trim(pieces[2]))
       IN IF ~isNaN(start) /\ ~isNaN(end)
          THEN rangeLoop(start.val, end.val, total, set)
          ELSE set
  ELSE LET pageNum == parseInt(trim(part))
       IN IF ~isNaN(pageNum) /\ pageNum.val >= 1 /\ pageNum.val <= total
          THEN SetAdd(set, pageNum.val - 1)
          ELSE set

SplitIdle ==
  /\ file = [ok |-> FALSE, numPages |-> 0] /\ rangeStr = <<>>
  /\ srcPdf = <<>> /\ newPdf = <<>> /\ totalPages = 0 /\ pagesToKeep = <<>>
  /\ parts = <<>> /\ partIdx = 0 /\ indices = <<>>
  /\ splitPc = "idle" /\ splitResult = Pending

SplitStart ==
  /\ \/ file \in PdfFiles(MaxPages) /\ rangeStr \in Strs(MaxLen)
     \/ /\ file \in {[ok |-> b, numPages |-> 10] : b \in BOOLEAN}
        /\ rangeStr \in Examples
  /\ srcPdf = <<>> /\ newPdf = <<>> /\ totalPages = 0 /\ pagesToKeep = <<>>
  /\ parts = <<>> /\ partIdx = 0 /\ indices = <<>>
  /\ splitPc = "load" /\ splitResult = Pending

\* mutant: the expression is parsed and validated before the file is loaded
SplitLoadFail_RangeFirst ==
  /\ splitPc = "load" /\ ~file.ok
  /\ splitPc' = "failed"
  /\ splitResult' =
       LET ps == split(rangeStr, ",")
       IN IF \A k \in 1..Len(ps) : forEachPart(ps[k], file.numPages, <<>>) = <<>>
          THEN Failure(RangeError) ELSE Failure(LoadError)
  /\ UNCHANGED <<file, rangeStr, srcPdf, newPdf, totalPages, pagesToKeep,
                 parts, partIdx, indices>>

\* await PDFDocument.load(fileBytes) rejects
SplitLoadFail ==
  /\ splitPc = "load" /\ ~file.ok
  /\ splitPc' = "failed" /\ splitResult' = Failure(LoadError)
  /\ UNCHANGED <<file, rangeStr, srcPdf, newPdf, totalPages, pagesToKeep,
                 parts, partIdx, indices>>

\* load, create, getPageCount, new Set, rangeStr.split(',')
SplitLoad ==
  /\ splitPc = "load" /\ file.ok
  /\ srcPdf' = load(1, file)
  /\ newPdf' = <<>>
  /\ totalPages' = Len(srcPdf')
  /\ pagesToKeep' = <<>>
  /\ parts' = split(rangeStr, ",")
  /\ partIdx' = 1
  /\ splitPc' = "forEach"
  /\ UNCHANGED <<file, rangeStr, indices, splitResult>>

\* mutant: the first term that yields nothing ends the iteration
SplitForEach_StopAtMalformed ==
  /\ splitPc = "forEach" /\ partIdx <= Len(parts)
  /\ pagesToKeep' = forEachPart(parts[partIdx], totalPages, pagesToKeep)
  /\ partIdx' = IF forEachPart(parts[partIdx], totalPages, <<>>) = <<>>
                THEN Len(parts) + 1 ELSE partIdx + 1
  /\ UNCHANGED <<file, rangeStr, srcPdf, newPdf, totalPages, parts, indices,
                 splitPc, splitResult>>

\* one call of the forEach callback
SplitForEach ==
  /\ splitPc = "forEach" /\ partIdx <= Len(parts)
  /\ pagesToKeep' = forEachPart(parts[partIdx], totalPages, pagesToKeep)
  /\ partIdx' = partIdx + 1
  /\ UNCHANGED <<file, rangeStr, srcPdf, newPdf, totalPages, parts, indices,
                 splitPc, splitResult>>

\* mutant: strict validation, a term that yields nothing raises the error
SplitInvalidRange_Strict ==
  /\ splitPc = "forEach" /\ partIdx > Len(parts)
  /\ indices' = SortAsc(pagesToKeep)
  /\ \/ Len(indices') = 0
     \/ \E k \in 1..Len(parts) : forEachPart(parts[k], totalPages, <<>>) = <<>>
  /\ splitPc' = "failed" /\ splitResult' = Failure(RangeError)
  /\ UNCHANGED <<file, rangeStr, srcPdf, newPdf, totalPages, pagesToKeep,
                 parts, partIdx>>

\* Array.from(pagesToKeep).sort(...); indices.length === 0: throw
SplitInvalidRange ==
  /\ splitPc = "forEach" /\ partIdx > Len(parts)
  /\ indices' = SortAsc(pagesToKeep)
  /\ Len(indices') = 0
  /\ splitPc' = "failed" /\ splitResult' = Failure(RangeError)
  /\ UNCHANGED <<file, rangeStr, srcPdf, newPdf, totalPages, pagesToKeep,
                 parts, partIdx>>

\* mutant: the pages are copied in the insertion order of the set
SplitCopyPages_InsertionOrder ==
  /\ splitPc = "forEach" /\ partIdx > Len(parts)
  /\ indices' = SortAsc(pagesToKeep)
  /\ Len(indices') # 0
  /\ newPdf' = newPdf \o copyPages(srcPdf, pagesToKeep)
  /\ splitPc' = "save"
  /\ UNCHANGED <<file, rangeStr, srcPdf, totalPages, pagesToKeep, parts,
                 partIdx, splitResult>>

\* Array.from(pagesToKeep).sort(...); copyPages; forEach addPage
SplitCopyPages ==
  /\ splitPc = "forEach" /\ partIdx > Len(parts)
  /\ indices' = SortAsc(pagesToKeep)
  /\ Len(indices') # 0
  /\ newPdf' = newPdf \o copyPages(srcPdf, indices')
  /\ splitPc' = "save"
  /\ UNCHANGED <<file, rangeStr, srcPdf, totalPages, pagesToKeep, parts,
                 partIdx, splitResult>>

\* return await newPdf.save()
SplitSave ==
  /\ splitPc = "save"
  /\ splitResult' = Bytes(save(newPdf))
  /\ splitPc' = "done"
  /\ UNCHANGED <<file, rangeStr, srcPdf, newPdf, totalPages, pagesToKeep,
                 parts, partIdx, indices>>

splitPdf ==
  SplitLoadFail \/ SplitLoad \/ SplitForEach \/ SplitInvalidRange
    \/ SplitCopyPages \/ SplitSave

(***************************************************************************)
(* mergePdfs(files)                                                        *)
(***************************************************************************)
SeqsUpTo(S, n) == UNION {[1..k -> S] : k \in 0..n}

MergeIdle ==
  /\ files = <<>> /\ mergedPdf = <<>> /\ fileIdx = 0
  /\ mergePc = "idle" /\ mergeResult = Pending

\* const mergedPdf = await PDFDocument.create()
MergeStart ==
  /\ files \in SeqsUpTo(PdfFiles(MaxPages), MaxFiles)
  /\ mergedPdf = <<>> /\ fileIdx = 1
  /\ mergePc = "loop" /\ mergeResult = Pending

\* await PDFDocument.load(fileBytes) rejects for the current file
MergeLoadFail ==
  /\ mergePc = "loop" /\ fileIdx <= Len(files) /\ ~files[fileIdx].ok
  /\ mergePc' = "failed" /\ mergeResult' = Failure(LoadError)
  /\ UNCHANGED <<files, mergedPdf, fileIdx>>

\* mutant: the pages of the current file are put in front of the others
MergeFile_Prepend ==
  /\ mergePc = "loop" /\ fileIdx <= Len(files) /\ files[fileIdx].ok
  /\ LET pdf == load(fileIdx, files[fileIdx])
         copiedPages == copyPages(pdf, getPageIndices(pdf))
     IN mergedPdf' = copiedPages \o mergedPdf
  /\ fileIdx' = fileIdx + 1
  /\ UNCHANGED <<files, mergePc, mergeResult>>

\* one iteration of for (const file of files): load, copyPages, addPage
MergeFile ==
  /\ mergePc = "loop" /\ fileIdx <= Len(files) /\ files[fileIdx].ok
  /\ LET pdf == load(fileIdx, files[fileIdx])
         copiedPages == copyPages(pdf, getPageIndices(pdf))
     IN mergedPdf' = mergedPdf \o copiedPages
  /\ fileIdx' = fileIdx + 1
  /\ UNCHANGED <<files, mergePc, mergeResult>>

\* return await mergedPdf.save()
MergeSave ==
  /\ mergePc = "loop" /\ fileIdx > Len(files)
  /\ mergeResult' = Bytes(save(mergedPdf))
  /\ mergePc' = "done"
  /\ UNCHANGED <<files, mergedPdf, fileIdx>>

mergePdfs == MergeLoadFail \/ MergeFile \/ MergeSave

(***************************************************************************)
(* imagesToPdf(images)                                                     *)
(* An image file has a MIME type and the pixel size of its picture;        *)
(* badImage is the position of the first image whose bytes the embedder    *)
(* cannot decode (0: every image decodes).                                 *)
(***************************************************************************)
MimeTypes == {"image/jpeg", "image/jpg", "image/png", "image/gif"}

\* pixel sizes of the enumerated pictures (width, height)
ImageSizes == {<<1, 2>>, <<2, 1>>, <<2, 2>>}

ImageFiles ==
  {[type |-> t, width |-> wh[1], height |-> wh[2]] :
     t \in MimeTypes, wh \in ImageSizes}

\* PDFImage.scale(factor)
scale(image, factor) ==
  [width |-> image.width * factor, height |-> image.height * factor]

\* mutant: the image/jpg alias is not recognised
Embeds_NoJpgAlias(image) ==
  image.type = "image/jpeg" \/ image.type = "image/png"

\* the branches of the type test that reach embedJpg / embedPng
Embeds(image) ==
  (image.type = "image/jpeg" \/ image.type = "image/jpg")
    \/ image.type = "image/png"

ImagesIdle ==
  /\ images = <<>> /\ badImage = 0 /\ pdfDoc = <<>> /\ imageIdx = 0
  /\ imagesPc = "idle" /\ imagesResult = Pending

\* const pdfDoc = await PDFDocument.create()
ImagesStart ==
  /\ images \in SeqsUpTo(ImageFiles, MaxImages)
  /\ badImage \in 0..Len(images)
  /\ pdfDoc = <<>> /\ imageIdx = 1
  /\ imagesPc = "loop" /\ imagesResult = Pending

\* mutant: an unsupported type is an error
ImagesSkip_Throw ==
  /\ imagesPc = "loop" /\ imageIdx <= Len(images)
  /\ ~Embeds(images[imageIdx])
  /\ imagesPc' = "failed" /\ imagesResult' = Failure(EmbedError)
  /\ UNCHANGED <<images, badImage, pdfDoc, imageIdx>>

\* else continue
ImagesSkip ==
  /\ imagesPc = "loop" /\ imageIdx <= Len(images)
  /\ ~Embeds(images[imageIdx])
  /\ imageIdx' = imageIdx + 1
  /\ UNCHANGED <<images, badImage, pdfDoc, imagesPc, imagesResult>>

\* await pdfDoc.embedJpg / embedPng rejects
ImagesEmbedFail ==
  /\ imagesPc = "loop" /\ imageIdx <= Len(images)
  /\ Embeds(images[imageIdx]) /\ imageIdx = badImage
  /\ imagesPc' = "failed" /\ imagesResult' = Failure(EmbedError)
  /\ UNCHANGED <<images, badImage, pdfDoc, imageIdx>>

ImagesAddPage_Replace ==
  /\ imagesPc = "loop" /\ imageIdx <= Len(images)
  /\ Embeds(images[imageIdx]) /\ imageIdx # badImage
  /\ LET dims == scale(images[imageIdx], 1)
     IN pdfDoc' = <<ImagePage(imageIdx, dims.width, dims.height)>>
  /\ imageIdx' = imageIdx + 1
  /\ UNCHANGED <<images, badImage, imagesPc, imagesResult>>

\* embed, pdfImage.scale(1), addPage([width, height]), drawImage
ImagesAddPage ==
  /\ imagesPc = "loop" /\ imageIdx <= Len(images)
  /\ Embeds(images[imageIdx]) /\ imageIdx # badImage
  /\ LET dims == scale(images[imageIdx], 1)
     IN pdfDoc' = Append(pdfDoc, ImagePage(imageIdx, dims.width, dims.height))
  /\ imageIdx' = imageIdx + 1
  /\ UNCHANGED <<images, badImage, imagesPc, imagesResult>>

\* return await pdfDoc.save()
ImagesSave ==
  /\ imagesPc = "loop" /\ imageIdx > Len(images)
  /\ imagesResult' = Bytes(save(pdfDoc))
  /\ imagesPc' = "done"
  /\ UNCHANGED <<images, badImage, pdfDoc, imageIdx>>

imagesToPdf == ImagesSkip \/ ImagesEmbedFail \/ ImagesAddPage \/ ImagesSave

(***************************************************************************)
(* compressPdf(file, quality, onProgress)                                  *)
(* Several invocations may be in flight at once; every variable of the     *)
(* operation is a function of the invocation.  call[k] holds the arguments *)
(* of invocation k and what its environment does during the call: whether  *)
(* the file parses, whether the canvas gives a 2d context, and the library *)
(* call that rejects (fault.page = 0: none does).  Lengths of a viewport   *)
(* are fractions [num, den]; canvas sizes are whole pixels; quality is in  *)
(* tenths.                                                                 *)
(***************************************************************************)
Invocations == {1, 2}

SrcSizes == {<<2, 4>>, <<3, 2>>}

Qualities == {4, 6, 8}

Callbacks == {"none", "records", "throws"}

Steps == {"getPage", "render", "encode", "embed"}

NoFault == [page |-> 0, step |-> "none"]

Faults(n) == {NoFault} \cup [page : 1..n, step : Steps]

CompressFiles(n) ==
  {[ok |-> FALSE, pages |-> <<>>]}
    \cup {[ok |-> TRUE, pages |-> p] : p \in SeqsUpTo(SrcSizes, n)}

NoCall ==
  [called |-> FALSE, file |-> [ok |-> FALSE, pages |-> <<>>], quality |-> 0,
   onProgress |-> "none", ctx |-> FALSE, fault |-> NoFault]

Calls(n) ==
  {[called |-> TRUE, file |-> f, quality |-> q, onProgress |-> cb,
    ctx |-> c, fault |-> flt] :
     f \in CompressFiles(n), q \in Qualities, cb \in Callbacks,
     c \in BOOLEAN, flt \in Faults(n)}

CanvasError == "Could not create canvas context"

CallbackError == "onProgress threw"

ViewportScale == [num |-> 3, den |-> 2]

getViewport_Unscaled(page, s) ==
  [scale |-> s,
   width |-> [num |-> page[1], den |-> 1],
   height |-> [num |-> page[2], den |-> 1]]

\* page.getViewport({scale}): the page's size times the scale
getViewport(page, s) ==
  [scale |-> s,
   width |-> [num |-> page[1] * s.num, den |-> s.den],
   height |-> [num |-> page[2] * s.num, den |-> s.den]]

NoViewport == getViewport(<<0, 0>>, ViewportScale)

\* canvas.width = x stores x converted to a whole number of pixels
Pixels(len) == len.num \div len.den

BlankCanvas == [width |-> 300, height |-> 150, frame |-> <<>>]

\* canvas.toDataURL('image/jpeg', q): what the canvas holds, encoded at q
toDataURL(c, q) ==
  [frame |-> c.frame, width |-> c.width, height |-> c.height, quality |-> q]

NoImage == toDataURL(BlankCanvas, 0)

\* addPage([viewport.width, viewport.height]) and drawImage(image, {x: 0,
\* y: 0, width: viewport.width, height: viewport.height}) of lines 178-184
RasterPage(n, vp, img) ==
  [kind |-> "raster", of |-> 0, no |-> n,
   width |-> vp.width, height |-> vp.height, image |-> img,
   drawn |-> [x |-> 0, y |-> 0, width |-> vp.width, height |-> vp.height]]

Event(e, p, a) == [ev |-> e, page |-> p, arg |-> a]

VARIABLES
  call, numPages, newPdfDoc, pageNo, viewport, canvas, imageDataUrl,
  imageBytes, log, compressPc, compressResult

compressVars ==
  <<call, numPages, newPdfDoc, pageNo, viewport, canvas, imageDataUrl,
    imageBytes, log, compressPc, compressResult>>

\* the canvas an invocation draws on: each creates its own (line 147)
CanvasOf_Shared(k) == 1

CanvasOf(k) == k

Faulty(k) == call[k].fault = [page |-> pageNo[k], step |-> compressPc[k]]

CompressStart(c) ==
  /\ call = c
  /\ numPages = [k \in Invocations |-> 0]
  /\ newPdfDoc = [k \in Invocations |-> <<>>]
  /\ pageNo = [k \in Invocations |-> 0]
  /\ viewport = [k \in Invocations |-> NoViewport]
  /\ canvas = [k \in Invocations |-> BlankCanvas]
  /\ imageDataUrl = [k \in Invocations |-> NoImage]
  /\ imageBytes = [k \in Invocations |-> NoImage]
  /\ log = [k \in Invocations |-> <<>>]
  /\ compressPc = [k \in Invocations |-> IF c[k].called THEN "load" ELSE "idle"]
  /\ compressResult = [k \in Invocations |-> Pending]

CompressIdle == CompressStart([k \in Invocations |-> NoCall])

\* lines 137-141: the file does not parse
CompressLoadFail(k) ==
  /\ compressPc[k] = "load"
  /\ ~call[k].file.ok
  /\ compressPc' = [compressPc EXCEPT ![k] = "failed"]
  /\ compressResult' = [compressResult EXCEPT ![k] = Failure(LoadError)]
  /\ UNCHANGED <<call, numPages, newPdfDoc, pageNo, viewport, canvas,
                 imageDataUrl, imageBytes, log>>

\* lines 137-144
CompressLoad(k) ==
  /\ compressPc[k] = "load"
  /\ call[k].file.ok
  /\ numPages' = [numPages EXCEPT ![k] = Len(call[k].file.pages)]
  /\ newPdfDoc' = [newPdfDoc EXCEPT ![k] = <<>>]
  /\ compressPc' = [compressPc EXCEPT ![k] = "canvas"]
  /\ UNCHANGED <<call, pageNo, viewport, canvas, imageDataUrl, imageBytes,
                 log, compressResult>>

\* mutant: the missing context is noticed inside the first iteration
CompressNoContext_AfterProgress(k) ==
  /\ compressPc[k] = "canvas"
  /\ ~call[k].ctx
  /\ log' = [log EXCEPT ![k] =
               IF numPages[k] >= 1 /\ call[k].onProgress # "none"
                 THEN Append(@, Event("progress", 1, numPages[k])) ELSE @]
  /\ compressPc' = [compressPc EXCEPT ![k] = "failed"]
  /\ compressResult' = [compressResult EXCEPT ![k] = Failure(CanvasError)]
  /\ UNCHANGED <<call, numPages, newPdfDoc, pageNo, viewport, canvas,
                 imageDataUrl, imageBytes>>

\* lines 147-150: getContext('2d') gives null
CompressNoContext(k) ==
  /\ compressPc[k] = "canvas"
  /\ ~call[k].ctx
  /\ compressPc' = [compressPc EXCEPT ![k] = "failed"]
  /\ compressResult' = [compressResult EXCEPT ![k] = Failure(CanvasError)]
  /\ UNCHANGED <<call, numPages, newPdfDoc, pageNo, viewport, canvas,
                 imageDataUrl, imageBytes, log>>

\* lines 147-152
CompressCanvas(k) ==
  /\ compressPc[k] = "canvas"
  /\ call[k].ctx
  /\ canvas' = [canvas EXCEPT ![CanvasOf(k)] = BlankCanvas]
  /\ pageNo' = [pageNo EXCEPT ![k] = 1]
  /\ compressPc' = [compressPc EXCEPT ![k] = "loop"]
  /\ UNCHANGED <<call, numPages, newPdfDoc, viewport, imageDataUrl,
                 imageBytes, log, compressResult>>

\* line 153 when the callback throws: nothing catches it
CompressProgressThrows(k) ==
  /\ compressPc[k] = "loop"
  /\ pageNo[k] <= numPages[k]
  /\ call[k].onProgress = "throws"
  /\ log' = [log EXCEPT ![k] = Append(@, Event("progress", pageNo[k], numPages[k]))]
  /\ compressPc' = [compressPc EXCEPT ![k] = "failed"]
  /\ compressResult' = [compressResult EXCEPT ![k] = Failure(CallbackError)]
  /\ UNCHANGED <<call, numPages, newPdfDoc, pageNo, viewport, canvas,
                 imageDataUrl, imageBytes>>

CompressIterate_ZeroBased(k) ==
  /\ compressPc[k] = "loop"
  /\ pageNo[k] <= numPages[k]
  /\ call[k].onProgress # "throws"
  /\ log' = [log EXCEPT ![k] =
               IF call[k].onProgress = "records"
                 THEN Append(@, Event("progress", pageNo[k] - 1, numPages[k]))
                 ELSE @]
  /\ compressPc' = [compressPc EXCEPT ![k] = "getPage"]
  /\ UNCHANGED <<call, numPages, newPdfDoc, pageNo, viewport, canvas,
                 imageDataUrl, imageBytes, compressResult>>

\* lines 152-155: loop test, progress report, getPage(i) is called
CompressIterate(k) ==
  /\ compressPc[k] = "loop"
  /\ pageNo[k] <= numPages[k]
  /\ call[k].onProgress # "throws"
  /\ log' = [log EXCEPT ![k] =
               IF call[k].onProgress = "records"
                 THEN Append(@, Event("progress", pageNo[k], numPages[k]))
                 ELSE @]
  /\ compressPc' = [compressPc EXCEPT ![k] = "getPage"]
  /\ UNCHANGED <<call, numPages, newPdfDoc, pageNo, viewport, canvas,
                 imageDataUrl, imageBytes, compressResult>>

CompressStepFail_Skip(k) ==
  /\ compressPc[k] \in Steps
  /\ Faulty(k)
  /\ pageNo' = [pageNo EXCEPT ![k] = @ + 1]
  /\ compressPc' = [compressPc EXCEPT ![k] = "loop"]
  /\ UNCHANGED <<call, numPages, newPdfDoc, viewport, canvas, imageDataUrl,
                 imageBytes, log, compressResult>>

\* mutant: the page in work is released on the way out, as a finally would
CompressStepFail_Releases(k) ==
  /\ compressPc[k] \in Steps
  /\ Faulty(k)
  /\ log' = [log EXCEPT ![k] = Append(@, Event("cleanup", pageNo[k], 0))]
  /\ compressPc' = [compressPc EXCEPT ![k] = "failed"]
  /\ compressResult' = [compressResult EXCEPT ![k] = Failure(compressPc[k])]
  /\ UNCHANGED <<call, numPages, newPdfDoc, pageNo, viewport, canvas,
                 imageDataUrl, imageBytes>>

\* lines 155, 169, 174, 176: an awaited library call rejects
CompressStepFail(k) ==
  /\ compressPc[k] \in Steps
  /\ Faulty(k)
  /\ compressPc' = [compressPc EXCEPT ![k] = "failed"]
  /\ compressResult' = [compressResult EXCEPT ![k] = Failure(compressPc[k])]
  /\ UNCHANGED <<call, numPages, newPdfDoc, pageNo, viewport, canvas,
                 imageDataUrl, imageBytes, log>>

\* lines 155-169: the page arrives, the canvas takes the viewport's size,
\* render is called
CompressGetPage(k) ==
  /\ compressPc[k] = "getPage"
  /\ ~Faulty(k)
  /\ LET vp == getViewport(call[k].file.pages[pageNo[k]], ViewportScale)
     IN /\ viewport' = [viewport EXCEPT ![k] = vp]
        /\ canvas' = [canvas EXCEPT ![CanvasOf(k)] =
                        [width |-> Pixels(vp.width),
                         height |-> Pixels(vp.height), frame |-> <<>>]]
  /\ log' = [log EXCEPT ![k] = Append(@, Event("getPage", pageNo[k], 0))]
  /\ compressPc' = [compressPc EXCEPT ![k] = "render"]
  /\ UNCHANGED <<call, numPages, newPdfDoc, pageNo, imageDataUrl, imageBytes,
                 compressResult>>

\* lines 169-174: the page is drawn, the canvas is encoded, fetch is called
CompressRender(k) ==
  /\ compressPc[k] = "render"
  /\ ~Faulty(k)
  /\ LET drawn == [canvas[CanvasOf(k)] EXCEPT !.frame = <<k, pageNo[k]>>]
     IN /\ canvas' = [canvas EXCEPT ![CanvasOf(k)] = drawn]
        /\ imageDataUrl' = [imageDataUrl EXCEPT ![k] =
                              toDataURL(drawn, call[k].quality)]
  /\ log' = [log EXCEPT ![k] =
               @ \o <<Event("render", pageNo[k], viewport[k].scale),
                      Event("toDataURL", pageNo[k], call[k].quality)>>]
  /\ compressPc' = [compressPc EXCEPT ![k] = "encode"]
  /\ UNCHANGED <<call, numPages, newPdfDoc, pageNo, viewport, imageBytes,
                 compressResult>>

\* lines 174-176: the encoded bytes arrive, embedJpg is called
CompressEncode(k) ==
  /\ compressPc[k] = "encode"
  /\ ~Faulty(k)
  /\ imageBytes' = [imageBytes EXCEPT ![k] = imageDataUrl[k]]
  /\ compressPc' = [compressPc EXCEPT ![k] = "embed"]
  /\ UNCHANGED <<call, numPages, newPdfDoc, pageNo, viewport, canvas,
                 imageDataUrl, log, compressResult>>

CompressEmbed_NoCleanup(k) ==
  /\ compressPc[k] = "embed"
  /\ ~Faulty(k)
  /\ newPdfDoc' = [newPdfDoc EXCEPT ![k] =
                     Append(@, RasterPage(pageNo[k], viewport[k], imageBytes[k]))]
  /\ log' = [log EXCEPT ![k] =
               @ \o <<Event("embedJpg", pageNo[k], 0),
                      Event("addPage", pageNo[k], 0)>>]
  /\ pageNo' = [pageNo EXCEPT ![k] = @ + 1]
  /\ compressPc' = [compressPc EXCEPT ![k] = "loop"]
  /\ UNCHANGED <<call, numPages, viewport, canvas, imageDataUrl, imageBytes,
                 compressResult>>

CompressEmbed_ReportsAtEnd(k) ==
  /\ compressPc[k] = "embed"
  /\ ~Faulty(k)
  /\ newPdfDoc' = [newPdfDoc EXCEPT ![k] =
                     Append(@, RasterPage(pageNo[k], viewport[k], imageBytes[k]))]
  /\ log' = [log EXCEPT ![k] =
               @ \o <<Event("embedJpg", pageNo[k], 0),
                      Event("addPage", pageNo[k], 0),
                      Event("cleanup", pageNo[k], 0),
                      Event("progress", pageNo[k], numPages[k])>>]
  /\ pageNo' = [pageNo EXCEPT ![k] = @ + 1]
  /\ compressPc' = [compressPc EXCEPT ![k] = "loop"]
  /\ UNCHANGED <<call, numPages, viewport, canvas, imageDataUrl, imageBytes,
                 compressResult>>

\* lines 176-187 and the i++ of line 152
CompressEmbed(k) ==
  /\ compressPc[k] = "embed"
  /\ ~Faulty(k)
  /\ newPdfDoc' = [newPdfDoc EXCEPT ![k] =
                     Append(@, RasterPage(pageNo[k], viewport[k], imageBytes[k]))]
  /\ log' = [log EXCEPT ![k] =
               @ \o <<Event("embedJpg", pageNo[k], 0),
                      Event("addPage", pageNo[k], 0),
                      Event("cleanup", pageNo[k], 0)>>]
  /\ pageNo' = [pageNo EXCEPT ![k] = @ + 1]
  /\ compressPc' = [compressPc EXCEPT ![k] = "loop"]
  /\ UNCHANGED <<call, numPages, viewport, canvas, imageDataUrl, imageBytes,
                 compressResult>>

CompressSave_Early(k) ==
  /\ compressPc[k] = "loop"
  /\ pageNo[k] > numPages[k] \/ pageNo[k] > 1
  /\ log' = [log EXCEPT ![k] = Append(@, Event("save", 0, 0))]
  /\ compressResult' = [compressResult EXCEPT ![k] = Bytes(save(newPdfDoc[k]))]
  /\ compressPc' = [compressPc EXCEPT ![k] = "done"]
  /\ UNCHANGED <<call, numPages, newPdfDoc, pageNo, viewport, canvas,
                 imageDataUrl, imageBytes>>

\* lines 152 and 190: the loop is over, the new document is serialized
CompressSave(k) ==
  /\ compressPc[k] = "loop"
  /\ pageNo[k] > numPages[k]
  /\ log' = [log EXCEPT ![k] = Append(@, Event("save", 0, 0))]
  /\ compressResult' = [compressResult EXCEPT ![k] = Bytes(save(newPdfDoc[k]))]
  /\ compressPc' = [compressPc EXCEPT ![k] = "done"]
  /\ UNCHANGED <<call, numPages, newPdfDoc, pageNo, viewport, canvas,
                 imageDataUrl, imageBytes>>

compressPdf(k) ==
  \/ CompressLoadFail(k)
  \/ CompressLoad(k)
  \/ CompressNoContext(k)
  \/ CompressCanvas(k)
  \/ CompressProgressThrows(k)
  \/ CompressIterate(k)
  \/ CompressStepFail(k)
  \/ CompressGetPage(k)
  \/ CompressRender(k)
  \/ CompressEncode(k)
  \/ CompressEmbed(k)
  \/ CompressSave(k)

(***************************************************************************)
(* The screens' handlers (App.tsx): convertToPdf, handleCompress,          *)
(* handleConvert, handleMerge and handleSplit.  The state a handler reads  *)
(* (the selected file or files, the range text, the quality) is the        *)
(* argument record of the operation it calls; hasFile tells whether a file *)
(* is selected, fetchOk whether the captured pictures can be read back.    *)
(* The compress screen's stats and progress only feed the display.         *)
(***************************************************************************)
VARIABLES handler, hasFile, fetchOk, status, downloads, handlerPc

screenVars == <<handler, hasFile, fetchOk, status, downloads, handlerPc>>

Handlers ==
  {"convertToPdf", "handleCompress", "handleConvert", "handleMerge",
   "handleSplit"}

\* the promise of the operation the handler awaits
Outcome ==
  CASE handler = "handleSplit" -> splitResult
    [] handler = "handleMerge" -> mergeResult
    [] handler \in {"handleConvert", "convertToPdf"} -> imagesResult
    [] handler = "handleCompress" -> compressResult[1]
    [] OTHER -> Pending

\* the early return at the top of a handler; handleMerge has none
GuardReturns ==
  CASE handler \in {"handleConvert", "convertToPdf"} -> images = <<>>
    [] handler = "handleCompress" -> ~hasFile
    [] handler = "handleSplit" -> ~hasFile \/ rangeStr = <<>>
    [] OTHER -> FALSE

FilenamePrefix ==
  CASE handler = "handleSplit" -> "split_"
    [] handler = "handleMerge" -> "merged_"
    [] handler = "handleConvert" -> "images_merged_"
    [] handler = "convertToPdf" -> "scan_"
    [] OTHER -> "compressed_"

downloadPdf(data, filename) ==
  downloads' = Append(downloads, [data |-> data, filename |-> filename])

ScreenIdle ==
  /\ handler = "none" /\ hasFile = FALSE /\ fetchOk = FALSE
  /\ status = "idle" /\ downloads = <<>> /\ handlerPc = "idle"

ScreenStart(h) ==
  /\ handler = h /\ status = "idle" /\ downloads = <<>> /\ handlerPc = "ready"

HandlerReturn ==
  /\ handlerPc = "ready" /\ GuardReturns
  /\ handlerPc' = "returned"
  /\ UNCHANGED <<handler, hasFile, fetchOk, status, downloads>>

\* setStatus('processing') and the call of the operation
HandlerBegin ==
  /\ handlerPc = "ready" /\ ~GuardReturns
  /\ status' = "processing"
  /\ handlerPc' = IF handler = "convertToPdf" THEN "fetch" ELSE "awaiting"
  /\ UNCHANGED <<handler, hasFile, fetchOk, downloads>>

\* convertToPdf: await Promise.all(capturedImages.map(fetch ...)) rejects
CameraFetchFail ==
  /\ handlerPc = "fetch" /\ ~fetchOk
  /\ status' = "error"
  /\ handlerPc' = "returned"
  /\ UNCHANGED <<handler, hasFile, fetchOk, downloads>>

CameraFetch ==
  /\ handlerPc = "fetch" /\ fetchOk
  /\ handlerPc' = "awaiting"
  /\ UNCHANGED <<handler, hasFile, fetchOk, status, downloads>>

\* await of the operation: the operation takes its steps
HandlerAwait ==
  /\ handlerPc = "awaiting"
  /\ \/ /\ handler = "handleSplit" /\ splitPdf
        /\ UNCHANGED <<mergeVars, imagesVars, compressVars>>
     \/ /\ handler = "handleMerge" /\ mergePdfs
        /\ UNCHANGED <<splitVars, imagesVars, compressVars>>
     \/ /\ handler \in {"handleConvert", "convertToPdf"} /\ imagesToPdf
        /\ UNCHANGED <<splitVars, mergeVars, compressVars>>
     \/ /\ handler = "handleCompress" /\ compressPdf(1)
        /\ UNCHANGED <<splitVars, mergeVars, imagesVars>>
  /\ UNCHANGED screenVars

HandlerCatch_Swallow ==
  /\ handlerPc = "awaiting" /\ Outcome.kind = "error"
  /\ status' = "success"
  /\ handlerPc' = "returned"
  /\ UNCHANGED <<handler, hasFile, fetchOk, downloads>>

\* catch (e) { console.error(e); setStatus('error') }
HandlerCatch ==
  /\ handlerPc = "awaiting" /\ Outcome.kind = "error"
  /\ status' = "error"
  /\ handlerPc' = "returned"
  /\ UNCHANGED <<handler, hasFile, fetchOk, downloads>>

\* handleCompress: the run took less than a second, wait one more
HandleCompressDelay ==
  /\ handler = "handleCompress"
  /\ handlerPc = "awaiting" /\ Outcome.kind = "bytes"
  /\ handlerPc' = "delay"
  /\ UNCHANGED <<handler, hasFile, fetchOk, status, downloads>>

\* downloadPdf(bytes, name); setStatus('success')
HandlerDownload ==
  /\ \/ handlerPc = "awaiting" /\ Outcome.kind = "bytes"
     \/ handlerPc = "delay"
  /\ downloadPdf(Outcome.pages, FilenamePrefix)
  /\ status' = "success"
  /\ handlerPc' = "returned"
  /\ UNCHANGED <<handler, hasFile, fetchOk>>

(***************************************************************************)
(* The parser of splitPdf step by step (lines 99-114), with the numbers a  *)
(* JavaScript engine computes.  A number is NaN or a non-negative whole    *)
(* number written as its decimal digits, most significant first; whole     *)
(* numbers are exact up to 2^53 and 2^53 + 1 rounds to 2^53.  The strings  *)
(* parsed here hold no sign and no 0x prefix, and no number above 2^53.    *)
(***************************************************************************)
TwoPow53 ==
  <<"9", "0", "0", "7", "1", "9", "9", "2", "5", "4", "7", "4", "0", "9",
    "9", "2">>

TwoPow53Minus1 ==
  <<"9", "0", "0", "7", "1", "9", "9", "2", "5", "4", "7", "4", "0", "9",
    "9", "1">>

NaNDigits == [nan |-> TRUE, digits |-> <<>>]

\* the digits without their leading zeros; one digit at least is kept
StripZeros(d) ==
  LET z == Cardinality({k \in 1..(Len(d) - 1) : \A j \in 1..k : d[j] = "0"})
  IN SubSeq(d, z + 1, Len(d))

\* parseInt(str) of a string without sign and 0x prefix: white space is
\* skipped, the longest prefix of decimal digits is converted
parseIntDigits(str) ==
  LET s0 == trimStart(str)
      n == Cardinality({k \in 1..Len(s0) :
                          \A j \in 1..k : s0[j] \in Range(DecDigits)})
  IN IF n = 0 THEN NaNDigits
     ELSE [nan |-> FALSE, digits |-> StripZeros(SubSeq(s0, 1, n))]

\* a <= b
DecLeq(a, b) ==
  \/ Len(a) < Len(b)
  \/ /\ Len(a) = Len(b)
     /\ \/ a = b
        \/ \E p \in 1..Len(a) :
             /\ SubSeq(a, 1, p - 1) = SubSeq(b, 1, p - 1)
             /\ DigitVal(a[p], 10) < DigitVal(b[p], 10)

\* d + 1: the trailing nines become zeros, the digit before them is raised
DecInc(d) ==
  LET n == Len(d)
      t == Cardinality({k \in 1..n : \A j \in (n - k + 1)..n : d[j] = "9"})
  IN IF t = n THEN <<"1">> \o [j \in 1..n |-> "0"]
     ELSE [j \in 1..n |->
             IF j < n - t THEN d[j]
             ELSE IF j = n - t THEN DecDigits[DigitVal(d[j], 10) + 2]
             ELSE "0"]

\* i++ on a double: 2^53 + 1 is not representable and rounds back to 2^53
JsInc(d) == IF DecLeq(TwoPow53, d) THEN d ELSE DecInc(d)

RECURSIVE ToDec(_)
ToDec(n) ==
  IF n < 10 THEN <<DecDigits[n + 1]>>
  ELSE ToDec(n \div 10) \o <<DecDigits[(n % 10) + 1]>>

\* i >= 1 && i <= totalPages
InPages(d, total) == DecLeq(<<"1">>, d) /\ DecLeq(d, ToDec(total))

\* lines 101-102 and 109: what the callback computes from a term before it
\* loops or adds: the numbers left and right of the first two '-' of a
\* range, or the page number of a single page
Term(part) ==
  IF includes(part, "-")
  THEN [range |-> TRUE,
        start |-> parseIntDigits(trim(split(part, "-")[1])),
        end |-> parseIntDigits(trim(split(part, "-")[2]))]
  ELSE [range |-> FALSE,
        start |-> parseIntDigits(trim(part)),
        end |-> NaNDigits]

\* terms tabulates Term over the terms of rangeStr when the invocation
\* starts: it depends on rangeStr alone
VARIABLES terms, loopI, loopEnd

loopVars == <<terms, loopI, loopEnd>>

LoopIdle == terms = <<>> /\ loopI = <<>> /\ loopEnd = <<>>

LoopStrs ==
  Strs(2) \cup {Str_1_3_5, Str_5_2, Str_1_abc_3, Str_1_2_10, Str_sp_range}
    \cup {TwoPow53 \o <<"-">> \o TwoPow53,
          TwoPow53Minus1 \o <<"-">> \o TwoPow53,
          <<"2", ",">> \o TwoPow53Minus1 \o <<"-">> \o TwoPow53Minus1}

SplitLoopStart ==
  /\ file \in PdfFiles(MaxPages) /\ rangeStr \in LoopStrs
  /\ srcPdf = <<>> /\ newPdf = <<>> /\ totalPages = 0 /\ pagesToKeep = <<>>
  /\ parts = <<>> /\ partIdx = 0 /\ indices = <<>>
  /\ splitPc = "load" /\ splitResult = Pending
  /\ terms = [p \in DOMAIN split(rangeStr, ",") |-> Term(split(rangeStr, ",")[p])]
  /\ loopI = <<>> /\ loopEnd = <<>>

IsNumberRange(t) == t.range /\ ~t.start.nan /\ ~t.end.nan

\* lines 101-104: a range of two numbers, let i = start
RangeLoopEnter ==
  /\ splitPc = "forEach" /\ partIdx <= Len(parts)
  /\ IsNumberRange(terms[partIdx])
  /\ loopI' = terms[partIdx].start.digits
  /\ loopEnd' = terms[partIdx].end.digits
  /\ splitPc' = "loopTest"
  /\ UNCHANGED <<file, rangeStr, srcPdf, newPdf, totalPages, pagesToKeep,
                 parts, partIdx, indices, splitResult, terms>>

\* lines 101-113: a range without two numbers adds nothing, a single page
\* is added if it is a page of the document
SplitForEachTerm ==
  /\ splitPc = "forEach" /\ partIdx <= Len(parts)
  /\ ~IsNumberRange(terms[partIdx])
  /\ LET pageNum == terms[partIdx].start
     IN pagesToKeep' =
          IF /\ ~terms[partIdx].range
             /\ ~pageNum.nan /\ InPages(pageNum.digits, totalPages)
          THEN SetAdd(pagesToKeep,
                      DigitsValue(pageNum.digits, Len(pageNum.digits), 10) - 1)
          ELSE pagesToKeep
  /\ partIdx' = partIdx + 1
  /\ UNCHANGED <<file, rangeStr, srcPdf, newPdf, totalPages, parts, indices,
                 splitPc, splitResult, loopVars>>

\* line 104: i <= end holds
RangeLoopTest ==
  /\ splitPc = "loopTest" /\ DecLeq(loopI, loopEnd)
  /\ splitPc' = "loopBody"
  /\ UNCHANGED <<file, rangeStr, srcPdf, newPdf, totalPages, pagesToKeep,
                 parts, partIdx, indices, splitResult, loopVars>>

\* line 104: i <= end fails, the callback returns
RangeLoopExit ==
  /\ splitPc = "loopTest" /\ ~DecLeq(loopI, loopEnd)
  /\ splitPc' = "forEach"
  /\ partIdx' = partIdx + 1
  /\ UNCHANGED <<file, rangeStr, srcPdf, newPdf, totalPages, pagesToKeep,
                 parts, indices, splitResult, loopVars>>

\* lines 105 and 104: the body, then i++
RangeLoopBody ==
  /\ splitPc = "loopBody"
  /\ pagesToKeep' =
       IF InPages(loopI, totalPages)
       THEN SetAdd(pagesToKeep, DigitsValue(loopI, Len(loopI), 10) - 1)
       ELSE pagesToKeep
  /\ loopI' = JsInc(loopI)
  /\ splitPc' = "loopTest"
  /\ UNCHANGED <<file, rangeStr, srcPdf, newPdf, totalPages, parts, partIdx,
                 indices, splitResult, terms, loopEnd>>

splitPdfSteps ==
  \/ (SplitLoadFail \/ SplitLoad \/ SplitInvalidRange \/ SplitCopyPages
        \/ SplitSave) /\ UNCHANGED loopVars
  \/ RangeLoopEnter
  \/ SplitForEachTerm
  \/ RangeLoopTest
  \/ RangeLoopExit
  \/ RangeLoopBody

(***************************************************************************)
(* performOCR and removeImageBackground (geminiService).  reply is what    *)
(* the remote service answers to generateContent: an error it raises, a    *)
(* text, or the parts of the first candidate.                              *)
(***************************************************************************)
RemoteOps == {"performOCR", "removeImageBackground"}

ServiceErrors == {"429 quota exceeded", "503 unavailable", "network error"}

Texts == {"", "a", "ab"}

ImageParts ==
  {[inlineData |-> FALSE, data |-> ""], [inlineData |-> TRUE, data |-> ""],
   [inlineData |-> TRUE, data |-> "A"], [inlineData |-> TRUE, data |-> "B"]}

Replies(op) ==
  {[kind |-> "error", error |-> e, text |-> "", parts |-> <<>>] :
     e \in ServiceErrors}
    \cup IF op = "performOCR"
         THEN {[kind |-> "ok", error |-> "", text |-> t, parts |-> <<>>] :
                 t \in Texts}
         ELSE {[kind |-> "ok", error |-> "", text |-> "", parts |-> ps] :
                 ps \in SeqsUpTo(ImageParts, 2)}

ApiKeyMissing(op) ==
  IF op = "performOCR"
  THEN "API Key is missing. Please check your configuration."
  ELSE "API Key is missing."

RemoteFailed(op) ==
  IF op = "performOCR"
  THEN "Failed to perform OCR. Please try again."
  ELSE "Failed to remove background."

NoImageGenerated == "No image generated."

VARIABLES remoteOp, apiKey, reply, remotePc, requests, consoleErrors,
          remoteResult

remoteVars ==
  <<remoteOp, apiKey, reply, remotePc, requests, consoleErrors, remoteResult>>

NoReply == [kind |-> "none", error |-> "", text |-> "", parts |-> <<>>]

NoResult == [kind |-> "pending", value |-> "", error |-> ""]

RemoteIdle ==
  /\ remoteOp = "none" /\ apiKey = "" /\ reply = NoReply
  /\ remotePc = "idle" /\ requests = 0 /\ consoleErrors = <<>>
  /\ remoteResult = NoResult

RemoteStart ==
  /\ remoteOp \in RemoteOps /\ apiKey \in {"", "key"}
  /\ reply \in Replies(remoteOp)
  /\ remotePc = "start" /\ requests = 0 /\ consoleErrors = <<>>
  /\ remoteResult = NoResult

\* the first part of the reply that carries inline data (lines 64-71)
FirstInlineData(ps) ==
  LET S == {p \in 1..Len(ps) : ps[p].inlineData /\ ps[p].data # ""}
  IN IF S = {} THEN 0 ELSE CHOOSE p \in S : \A q \in S : p <= q

\* if (!apiKey) throw new Error("API Key is missing...")
RemoteNoKey ==
  /\ remotePc = "start" /\ apiKey = ""
  /\ remoteResult' = [kind |-> "error", value |-> "", error |-> ApiKeyMissing(remoteOp)]
  /\ remotePc' = "failed"
  /\ UNCHANGED <<remoteOp, apiKey, reply, requests, consoleErrors>>

\* ai.models.generateContent(...) is called
RemoteRequest ==
  /\ remotePc = "start" /\ apiKey # ""
  /\ requests' = requests + 1
  /\ remotePc' = "awaiting"
  /\ UNCHANGED <<remoteOp, apiKey, reply, consoleErrors, remoteResult>>

RemoteCatch_Rethrow ==
  /\ remotePc = "awaiting" /\ reply.kind = "error"
  /\ consoleErrors' = Append(consoleErrors, reply.error)
  /\ remoteResult' = [kind |-> "error", value |-> "", error |-> reply.error]
  /\ remotePc' = "failed"
  /\ UNCHANGED <<remoteOp, apiKey, reply, requests>>

\* the service rejects: catch (error) { console.error(...); throw new Error(...) }
RemoteCatch ==
  /\ remotePc = "awaiting" /\ reply.kind = "error"
  /\ consoleErrors' = Append(consoleErrors, reply.error)
  /\ remoteResult' = [kind |-> "error", value |-> "", error |-> RemoteFailed(remoteOp)]
  /\ remotePc' = "failed"
  /\ UNCHANGED <<remoteOp, apiKey, reply, requests>>

\* return response.text || "No text could be extracted."
RemoteText ==
  /\ remotePc = "awaiting" /\ reply.kind = "ok" /\ remoteOp = "performOCR"
  /\ remoteResult' =
       [kind |-> "value", error |-> "",
        value |-> IF reply.text = "" THEN "No text could be extracted."
                  ELSE reply.text]
  /\ remotePc' = "done"
  /\ UNCHANGED <<remoteOp, apiKey, reply, requests, consoleErrors>>

\* return part.inlineData.data of the first part that has it
RemoteImage ==
  /\ remotePc = "awaiting" /\ reply.kind = "ok"
  /\ remoteOp = "removeImageBackground"
  /\ FirstInlineData(reply.parts) # 0
  /\ remoteResult' =
       [kind |-> "value", error |-> "",
        value |-> reply.parts[FirstInlineData(reply.parts)].data]
  /\ remotePc' = "done"
  /\ UNCHANGED <<remoteOp, apiKey, reply, requests, consoleErrors>>

\* throw new Error("No image generated.") inside the try: caught and replaced
RemoteNoImage ==
  /\ remotePc = "awaiting" /\ reply.kind = "ok"
  /\ remoteOp = "removeImageBackground"
  /\ FirstInlineData(reply.parts) = 0
  /\ consoleErrors' = Append(consoleErrors, NoImageGenerated)
  /\ remoteResult' = [kind |-> "error", value |-> "", error |-> RemoteFailed(remoteOp)]
  /\ remotePc' = "failed"
  /\ UNCHANGED <<remoteOp, apiKey, reply, requests>>

geminiService ==
  \/ RemoteNoKey
  \/ RemoteRequest
  \/ RemoteCatch
  \/ RemoteText
  \/ RemoteImage
  \/ RemoteNoImage

(***************************************************************************)
(* A session on one of the four transformation screens (App.tsx):          *)
(* ImageToPdfScreen, MergePdfScreen, SplitPdfScreen, CompressPdfScreen.    *)
(* The user selects files, types a range, picks a preset, clears and       *)
(* starts, whenever the screen as rendered for the current state offers    *)
(* the control.  picked is the number of selected files (file != null is   *)
(* picked = 1), stats tells whether stats is set.  runs holds one entry    *)
(* per invocation of the screen's handler.  compressPdf runs as modelled   *)
(* above, run i being invocation i; the awaited promise of the other three *)
(* operations settles with bytes or with a failure.                        *)
(***************************************************************************)
VARIABLES screen, picked, range, preset, stats, runs, result

uiVars == <<screen, picked, range, preset, stats, runs, result>>

handlerVars == <<handler, hasFile, fetchOk, handlerPc>>

opVars == <<splitVars, mergeVars, imagesVars, loopVars, remoteVars>>

SessionScreens ==
  {"ImageToPdfScreen", "MergePdfScreen", "SplitPdfScreen", "CompressPdfScreen"}

ListScreens == {"ImageToPdfScreen", "MergePdfScreen"}

MaxPicked == 2     \* most files a session selects

MaxRuns == Cardinality(Invocations)

Presets == {"low", "medium", "high"}

qualityMap_Inverted == [low |-> 4, medium |-> 6, high |-> 8]

\* lines 634-638, in tenths
qualityMap == [low |-> 8, medium |-> 6, high |-> 4]

RangeTexts == {<<>>, <<"1">>, <<"9">>}

\* what the awaited promise of imagesToPdf, mergePdfs or splitPdf settles with
Settles == {Bytes(<<SrcPage(1, 0)>>), Failure(LoadError)}

\* the files and the environment a run of the compress screen may meet
SessionCalls ==
  {c \in Calls(2) : c.onProgress = "records" /\ c.fault = NoFault}

ScreenFilename ==
  CASE screen = "SplitPdfScreen" -> "split_"
    [] screen = "MergePdfScreen" -> "merged_"
    [] screen = "ImageToPdfScreen" -> "images_merged_"
    [] OTHER -> "compressed_"

UiIdle ==
  /\ screen = "none" /\ picked = 0 /\ range = <<>> /\ preset = "medium"
  /\ stats = FALSE /\ runs = <<>> /\ result = ""

\* the screen is mounted: the initial values of its useState calls
SessionStart ==
  /\ screen \in SessionScreens /\ picked = 0 /\ range = <<>>
  /\ preset = "medium" /\ stats = FALSE /\ runs = <<>> /\ result = ""

\* the branch of the render that shows the uploader, the inputs and the
\* start button
ShowsForm ==
  IF screen = "CompressPdfScreen"
    THEN ~(status = "success" /\ stats) /\ status # "processing"
    ELSE status \notin {"success", "processing"}

\* FileUploader.onFilesSelected
SelectFiles ==
  /\ ShowsForm
  /\ IF screen \in ListScreens THEN picked < MaxPicked ELSE picked = 0
  /\ picked' = picked + 1
  /\ UNCHANGED <<screen, range, preset, stats, runs, result, status, downloads>>

\* the header's trash button of the list screens (lines 801-805, 877-881)
TrashList ==
  /\ screen \in ListScreens /\ picked > 0
  /\ picked' = 0 /\ status' = "idle"
  /\ UNCHANGED <<screen, range, preset, stats, runs, result, downloads>>

\* the header's trash button of the compress screen (lines 686-690)
TrashCompress ==
  /\ screen = "CompressPdfScreen" /\ picked > 0 /\ status # "processing"
  /\ picked' = 0 /\ status' = "idle" /\ stats' = FALSE
  /\ UNCHANGED <<screen, range, preset, runs, result, downloads>>

\* the button of the success view (lines 715, 814, 888, 943)
ResetAfterSuccess ==
  /\ status = "success"
  /\ screen = "CompressPdfScreen" => stats
  /\ picked' = 0 /\ status' = "idle"
  /\ range' = IF screen = "SplitPdfScreen" THEN <<>> ELSE range
  /\ stats' = IF screen = "CompressPdfScreen" THEN FALSE ELSE stats
  /\ UNCHANGED <<screen, preset, runs, result, downloads>>

\* the split screen's Clear button (line 973)
ClearSplit ==
  /\ screen = "SplitPdfScreen" /\ ShowsForm /\ picked > 0
  /\ picked' = 0
  /\ UNCHANGED <<screen, range, preset, stats, runs, result, status, downloads>>

\* the split screen's text input (lines 964-970)
SetRange ==
  /\ screen = "SplitPdfScreen" /\ ShowsForm /\ picked > 0
  /\ \E r \in RangeTexts : r # range /\ range' = r
  /\ UNCHANGED <<screen, picked, preset, stats, runs, result, status, downloads>>

\* the compress screen's preset buttons (lines 750-763)
SetQuality ==
  /\ screen = "CompressPdfScreen" /\ ShowsForm /\ picked > 0
  /\ \E p \in Presets : p # preset /\ preset' = p
  /\ UNCHANGED <<screen, picked, range, stats, runs, result, status, downloads>>

\* the start button is rendered and enabled, and the handler's guard passes
CanStart ==
  /\ ShowsForm /\ picked > 0
  /\ screen = "SplitPdfScreen" => range # <<>>
  /\ Len(runs) < MaxRuns

NewRun == [pc |-> "awaiting", preset |-> preset, outcome |-> Pending]

\* handleConvert, handleMerge, handleSplit up to their await
StartRun ==
  /\ screen # "CompressPdfScreen" /\ CanStart
  /\ status' = "processing"
  /\ runs' = Append(runs, NewRun)
  /\ UNCHANGED <<screen, picked, range, preset, stats, result, downloads>>
  /\ UNCHANGED compressVars

\* handleCompress up to its await: compressPdf(file, qualityMap[quality], cb)
StartCompress ==
  /\ screen = "CompressPdfScreen" /\ CanStart
  /\ status' = "processing"
  /\ runs' = Append(runs, NewRun)
  /\ \E c \in SessionCalls :
       /\ call' = [call EXCEPT ![Len(runs) + 1] =
                     [c EXCEPT !.quality = qualityMap[preset]]]
       /\ compressPc' = [compressPc EXCEPT ![Len(runs) + 1] = "load"]
  /\ UNCHANGED <<numPages, newPdfDoc, pageNo, viewport, canvas, imageDataUrl,
                 imageBytes, log, compressResult>>
  /\ UNCHANGED <<screen, picked, range, preset, stats, result, downloads>>

\* compressPdf takes a step while handleCompress awaits it
RunCompressStep(i) ==
  /\ runs[i].pc = "awaiting" /\ screen = "CompressPdfScreen"
  /\ compressPdf(i)
  /\ UNCHANGED <<uiVars, status, downloads>>

\* the promise of imagesToPdf, mergePdfs or splitPdf settles
RunSettles(i) ==
  /\ runs[i].pc = "awaiting" /\ runs[i].outcome = Pending
  /\ screen # "CompressPdfScreen"
  /\ \E o \in Settles : runs' = [runs EXCEPT ![i].outcome = o]
  /\ UNCHANGED <<screen, picked, range, preset, stats, result, status, downloads>>
  /\ UNCHANGED compressVars

\* what run i awaits has settled with
RunOutcome(i) ==
  IF screen = "CompressPdfScreen" THEN compressResult[i] ELSE runs[i].outcome

\* handleCompress after the await: setStats, and the run was a fast one
RunCompressDelay(i) ==
  /\ screen = "CompressPdfScreen"
  /\ runs[i].pc = "awaiting" /\ RunOutcome(i).kind = "bytes"
  /\ stats' = TRUE
  /\ runs' = [runs EXCEPT ![i].pc = "delay"]
  /\ UNCHANGED <<screen, picked, range, preset, result, status, downloads>>
  /\ UNCHANGED compressVars

\* downloadPdf(bytes, name); setStatus('success')
RunDownload(i) ==
  /\ \/ runs[i].pc = "awaiting" /\ RunOutcome(i).kind = "bytes"
     \/ runs[i].pc = "delay"
  /\ stats' = IF screen = "CompressPdfScreen" THEN TRUE ELSE stats
  /\ downloadPdf(RunOutcome(i).pages, ScreenFilename)
  /\ status' = "success"
  /\ runs' = [runs EXCEPT ![i].pc = "returned"]
  /\ UNCHANGED <<screen, picked, range, preset, result>>
  /\ UNCHANGED compressVars

\* catch (e) { console.error(e); setStatus('error') }
RunCatch(i) ==
  /\ runs[i].pc = "awaiting" /\ RunOutcome(i).kind = "error"
  /\ status' = "error"
  /\ runs' = [runs EXCEPT ![i].pc = "returned"]
  /\ UNCHANGED <<screen, picked, range, preset, stats, result, downloads>>
  /\ UNCHANGED compressVars

(***************************************************************************)
(* handleOcr and handleRemoveBg (App.tsx lines 991-1007, 428-444).  The    *)
(* handler sets the status, registers reader.onloadend and starts the      *)
(* read; its try block ends there.  The callback runs later, as an async   *)
(* function of its own: fetchOk tells whether the read gave a data URL     *)
(* (reader.result is null otherwise).  An exception inside the callback    *)
(* rejects the callback's promise, which nothing awaits.                   *)
(***************************************************************************)
ReaderHandlers == {"handleOcr", "handleRemoveBg"}

RemoteOpOf(h) ==
  IF h = "handleOcr" THEN "performOCR" ELSE "removeImageBackground"

\* if (!file) return
ReaderReturn ==
  /\ handler \in ReaderHandlers
  /\ handlerPc = "ready" /\ ~hasFile
  /\ handlerPc' = "returned"
  /\ UNCHANGED <<handler, hasFile, fetchOk, status, downloads, uiVars>>

\* setStatus('processing'); reader.onloadend = ...; reader.readAsDataURL(file)
ReaderBegin ==
  /\ handler \in ReaderHandlers
  /\ handlerPc = "ready" /\ hasFile
  /\ status' = "processing"
  /\ handlerPc' = "reading"
  /\ UNCHANGED <<handler, hasFile, fetchOk, downloads, uiVars>>

\* onloadend after a failed read: (reader.result as string).split throws
ReaderLoadEndFail ==
  /\ handlerPc = "reading" /\ ~fetchOk
  /\ handlerPc' = "unhandled"
  /\ UNCHANGED <<handler, hasFile, fetchOk, status, downloads, uiVars>>

\* onloadend: the remote operation is called with the base64 text
ReaderLoadEnd ==
  /\ handlerPc = "reading" /\ fetchOk
  /\ handlerPc' = "awaiting"
  /\ UNCHANGED <<handler, hasFile, fetchOk, status, downloads, uiVars>>

\* await performOCR(base64) / removeImageBackground(base64)
ReaderAwait ==
  /\ handler \in ReaderHandlers /\ handlerPc = "awaiting"
  /\ geminiService
  /\ UNCHANGED <<screenVars, uiVars>>

\* setResult(text) / setResultImage(...); setStatus('success')
ReaderResolved ==
  /\ handler \in ReaderHandlers
  /\ handlerPc = "awaiting" /\ remoteResult.kind = "value"
  /\ result' = remoteResult.value
  /\ status' = "success"
  /\ handlerPc' = "returned"
  /\ UNCHANGED <<handler, hasFile, fetchOk, downloads, screen, picked, range,
                 preset, stats, runs>>

\* the awaited operation rejects inside the callback: no catch is around it
ReaderRejected ==
  /\ handler \in ReaderHandlers
  /\ handlerPc = "awaiting" /\ remoteResult.kind = "error"
  /\ handlerPc' = "unhandled"
  /\ UNCHANGED <<handler, hasFile, fetchOk, status, downloads, uiVars>>

\* what the operations of pdfService never touch
restVars == <<screenVars, loopVars, remoteVars, uiVars>>

RestIdle == ScreenIdle /\ LoopIdle /\ RemoteIdle /\ UiIdle

vars == <<splitVars, mergeVars, imagesVars, compressVars, restVars>>

(***************************************************************************)
(* Specifications: one per operation.                                      *)
(***************************************************************************)
InitSplit == SplitStart /\ MergeIdle /\ ImagesIdle /\ CompressIdle /\ RestIdle

NextSplit == splitPdf /\ UNCHANGED <<mergeVars, imagesVars, compressVars, restVars>>

SpecSplit == InitSplit /\ [][NextSplit]_vars

InitMerge == SplitIdle /\ MergeStart /\ ImagesIdle /\ CompressIdle /\ RestIdle

NextMerge == mergePdfs /\ UNCHANGED <<splitVars, imagesVars, compressVars, restVars>>

SpecMerge == InitMerge /\ [][NextMerge]_vars

InitImages == SplitIdle /\ MergeIdle /\ ImagesStart /\ CompressIdle /\ RestIdle

NextImages == imagesToPdf /\ UNCHANGED <<splitVars, mergeVars, compressVars, restVars>>

SpecImages == InitImages /\ [][NextImages]_vars

InitCompress ==
  /\ SplitIdle /\ MergeIdle /\ ImagesIdle /\ RestIdle
  /\ \E c \in Calls(MaxPages) :
       CompressStart([k \in Invocations |-> IF k = 1 THEN c ELSE NoCall])

NextCompress ==
  compressPdf(1) /\ UNCHANGED <<splitVars, mergeVars, imagesVars, restVars>>

SpecCompress == InitCompress /\ [][NextCompress]_vars

\* the four transformations, one invocation of one of them per behaviour
InitTransform ==
  \/ InitSplit /\ rangeStr \in Strs(2) \cup Examples
  \/ InitMerge
  \/ InitImages
  \/ InitCompress

NextTransform == NextSplit \/ NextMerge \/ NextImages \/ NextCompress

SpecTransform == InitTransform /\ [][NextTransform]_vars

\* one click on the button of one screen
InitScreens ==
  /\ LoopIdle /\ RemoteIdle /\ UiIdle
  /\
     \/ /\ ScreenStart("handleSplit") /\ hasFile \in BOOLEAN /\ fetchOk = TRUE
        /\ SplitStart /\ rangeStr \in Strs(2) \cup Examples
        /\ MergeIdle /\ ImagesIdle /\ CompressIdle
     \/ /\ ScreenStart("handleMerge") /\ hasFile = TRUE /\ fetchOk = TRUE
        /\ SplitIdle /\ MergeStart /\ ImagesIdle /\ CompressIdle
     \/ /\ ScreenStart("handleConvert") /\ hasFile = TRUE /\ fetchOk = TRUE
        /\ SplitIdle /\ MergeIdle /\ ImagesStart /\ CompressIdle
     \/ /\ ScreenStart("convertToPdf") /\ hasFile = TRUE /\ fetchOk \in BOOLEAN
        /\ SplitIdle /\ MergeIdle /\ ImagesStart /\ CompressIdle
        /\ \A n \in 1..Len(images) : images[n].type = "image/jpeg"
     \/ /\ ScreenStart("handleCompress") /\ hasFile \in BOOLEAN /\ fetchOk = TRUE
        /\ SplitIdle /\ MergeIdle /\ ImagesIdle
        /\ \E c \in Calls(MaxPages) :
             /\ c.onProgress = "records"
             /\ CompressStart([k \in Invocations |-> IF k = 1 THEN c ELSE NoCall])

NextScreens ==
  \/ HandlerReturn /\ UNCHANGED <<splitVars, mergeVars, imagesVars, compressVars, loopVars, remoteVars, uiVars>>
  \/ HandlerBegin /\ UNCHANGED <<splitVars, mergeVars, imagesVars, compressVars, loopVars, remoteVars, uiVars>>
  \/ CameraFetchFail /\ UNCHANGED <<splitVars, mergeVars, imagesVars, compressVars, loopVars, remoteVars, uiVars>>
  \/ CameraFetch /\ UNCHANGED <<splitVars, mergeVars, imagesVars, compressVars, loopVars, remoteVars, uiVars>>
  \/ HandlerAwait /\ UNCHANGED <<loopVars, remoteVars, uiVars>>
  \/ HandlerCatch /\ UNCHANGED <<splitVars, mergeVars, imagesVars, compressVars, loopVars, remoteVars, uiVars>>
  \/ HandleCompressDelay /\ UNCHANGED <<splitVars, mergeVars, imagesVars, compressVars, loopVars, remoteVars, uiVars>>
  \/ HandlerDownload /\ UNCHANGED <<splitVars, mergeVars, imagesVars, compressVars, loopVars, remoteVars, uiVars>>

SpecScreens == InitScreens /\ [][NextScreens]_vars

\* two invocations of compressPdf, or one alone, and one of mergePdfs, whose
\* steps between awaits interleave freely
ConcurrentCalls ==
  {c \in Calls(2) :
     /\ c.ctx /\ c.onProgress = "records" /\ c.quality \in {4, 8}
     /\ c.fault \in {NoFault, [page |-> 2, step |-> "embed"]}}

InitConcurrent ==
  /\ SplitIdle /\ ImagesIdle /\ RestIdle
  /\ MergeStart
  /\ files = <<[ok |-> TRUE, numPages |-> 3], [ok |-> TRUE, numPages |-> 2]>>
  /\ \E c1 \in ConcurrentCalls, c2 \in ConcurrentCalls \cup {NoCall} :
       CompressStart([k \in Invocations |-> IF k = 1 THEN c1 ELSE c2])

NextConcurrent ==
  \/ compressPdf(1) /\ UNCHANGED <<splitVars, mergeVars, imagesVars, restVars>>
  \/ compressPdf(2) /\ UNCHANGED <<splitVars, mergeVars, imagesVars, restVars>>
  \/ mergePdfs /\ UNCHANGED <<splitVars, imagesVars, compressVars, restVars>>

SpecConcurrent == InitConcurrent /\ [][NextConcurrent]_vars

\* splitPdf with its parser taken step by step; the engine keeps running
\* the loop, which weak fairness of the steps states
InitSplitLoop ==
  /\ SplitLoopStart /\ MergeIdle /\ ImagesIdle /\ CompressIdle
  /\ ScreenIdle /\ RemoteIdle /\ UiIdle

NextSplitLoop ==
  /\ splitPdfSteps
  /\ UNCHANGED <<mergeVars, imagesVars, compressVars, screenVars, remoteVars,
                 uiVars>>

SpecSplitLoop ==
  InitSplitLoop /\ [][NextSplitLoop]_vars /\ WF_vars(NextSplitLoop)

\* one call of performOCR or removeImageBackground
InitRemote ==
  /\ SplitIdle /\ MergeIdle /\ ImagesIdle /\ CompressIdle
  /\ ScreenIdle /\ LoopIdle /\ RemoteStart /\ UiIdle

NextRemote ==
  /\ geminiService
  /\ UNCHANGED <<splitVars, mergeVars, imagesVars, compressVars, screenVars,
                 loopVars, uiVars>>

SpecRemote == InitRemote /\ [][NextRemote]_vars

\* a session of user actions on one transformation screen
InitSession ==
  /\ SplitIdle /\ MergeIdle /\ ImagesIdle /\ CompressIdle
  /\ ScreenIdle /\ LoopIdle /\ RemoteIdle
  /\ SessionStart

NextSession ==
  \/ SelectFiles /\ UNCHANGED <<handlerVars, opVars, compressVars>>
  \/ TrashList /\ UNCHANGED <<handlerVars, opVars, compressVars>>
  \/ TrashCompress /\ UNCHANGED <<handlerVars, opVars, compressVars>>
  \/ ResetAfterSuccess /\ UNCHANGED <<handlerVars, opVars, compressVars>>
  \/ ClearSplit /\ UNCHANGED <<handlerVars, opVars, compressVars>>
  \/ SetRange /\ UNCHANGED <<handlerVars, opVars, compressVars>>
  \/ SetQuality /\ UNCHANGED <<handlerVars, opVars, compressVars>>
  \/ StartRun /\ UNCHANGED <<handlerVars, opVars>>
  \/ StartCompress /\ UNCHANGED <<handlerVars, opVars>>
  \/ \E i \in 1..Len(runs) : RunCompressStep(i) /\ UNCHANGED <<handlerVars, opVars>>
  \/ \E i \in 1..Len(runs) : RunSettles(i) /\ UNCHANGED <<handlerVars, opVars>>
  \/ \E i \in 1..Len(runs) : RunCompressDelay(i) /\ UNCHANGED <<handlerVars, opVars>>
  \/ \E i \in 1..Len(runs) : RunDownload(i) /\ UNCHANGED <<handlerVars, opVars>>
  \/ \E i \in 1..Len(runs) : RunCatch(i) /\ UNCHANGED <<handlerVars, opVars>>

SpecSession == InitSession /\ [][NextSession]_vars

\* one click on the button of the OCR or the background-removal screen
InitReader ==
  /\ SplitIdle /\ MergeIdle /\ ImagesIdle /\ CompressIdle /\ LoopIdle /\ UiIdle
  /\ handler \in ReaderHandlers /\ hasFile \in BOOLEAN /\ fetchOk \in BOOLEAN
  /\ status = "idle" /\ downloads = <<>> /\ handlerPc = "ready"
  /\ RemoteStart /\ remoteOp = RemoteOpOf(handler)

NextReader ==
  \/ ReaderReturn /\ UNCHANGED <<splitVars, mergeVars, imagesVars, compressVars, loopVars, remoteVars>>
  \/ ReaderBegin /\ UNCHANGED <<splitVars, mergeVars, imagesVars, compressVars, loopVars, remoteVars>>
  \/ ReaderLoadEndFail /\ UNCHANGED <<splitVars, mergeVars, imagesVars, compressVars, loopVars, remoteVars>>
  \/ ReaderLoadEnd /\ UNCHANGED <<splitVars, mergeVars, imagesVars, compressVars, loopVars, remoteVars>>
  \/ ReaderAwait /\ UNCHANGED <<splitVars, mergeVars, imagesVars, compressVars, loopVars>>
  \/ ReaderResolved /\ UNCHANGED <<splitVars, mergeVars, imagesVars, compressVars, loopVars, remoteVars>>
  \/ ReaderRejected /\ UNCHANGED <<splitVars, mergeVars, imagesVars, compressVars, loopVars, remoteVars>>

SpecReader == InitReader /\ [][NextReader]_vars /\ WF_vars(NextReader)

(***************************************************************************)
(* Reference semantics of the page-range language, written from the        *)
(* grammar  expr := term (',' term)*,  term := INTEGER | INTEGER '-'       *)
(* INTEGER  and not from the parsing code.                                 *)
(***************************************************************************)
IsDigits(s) == s # <<>> /\ \A i \in 1..Len(s) : s[i] \in Range(DecDigits)

RECURSIVE RefVal(_)
RefVal(s) ==
  IF s = <<>> THEN 0
  ELSE 10 * RefVal(SubSeq(s, 1, Len(s) - 1))
         + (CHOOSE d \in 0..9 : DecDigits[d + 1] = s[Len(s)])

\* the value of s when s is an INTEGER with white space around it: {} or {v}
RefInts(s) ==
  {RefVal(SubSeq(s, ij[1], ij[2])) :
     ij \in {x \in (1..Len(s)) \X (1..Len(s)) :
               /\ x[1] <= x[2]
               /\ IsDigits(SubSeq(s, x[1], x[2]))
               /\ \A k \in 1..(x[1] - 1) : s[k] \in WhiteSpace
               /\ \A k \in (x[2] + 1)..Len(s) : s[k] \in WhiteSpace}}

RefLeft(t, h) == SubSeq(t, 1, h - 1)

RefRight(t, h) == SubSeq(t, h + 1, Len(t))

RefIsRange(t, h) ==
  h \in 1..Len(t) /\ t[h] = "-"
    /\ RefInts(RefLeft(t, h)) # {} /\ RefInts(RefRight(t, h)) # {}

RefTermWellFormed(t) == RefInts(t) # {} \/ \E h \in 1..Len(t) : RefIsRange(t, h)

\* the 1-based page numbers a term covers
RefCovers(t) ==
  RefInts(t) \cup
    UNION {UNION {UNION {a..b : b \in RefInts(RefRight(t, h))} :
                    a \in RefInts(RefLeft(t, h))} :
             h \in {x \in 1..Len(t) : RefIsRange(t, x)}}

\* a range term whose start is greater than its end
RefReversed(t) ==
  \E h \in 1..Len(t) :
    /\ RefIsRange(t, h)
    /\ \E a \in RefInts(RefLeft(t, h)) : \E b \in RefInts(RefRight(t, h)) : a > b

\* the maximal comma-free segments of an expression
RefTerms(e) ==
  {SubSeq(e, ab[1], ab[2]) :
     ab \in {x \in (1..(Len(e) + 1)) \X (0..Len(e)) :
               /\ x[2] >= x[1] - 1
               /\ x[1] = 1 \/ e[x[1] - 1] = ","
               /\ x[2] = Len(e) \/ e[x[2] + 1] = ","
               /\ \A k \in x[1]..x[2] : e[k] # ","}}

RefWellFormed(e) == \A t \in RefTerms(e) : RefTermWellFormed(t)

RefSet(e, total) ==
  {p - 1 : p \in (UNION {RefCovers(t) : t \in RefTerms(e)}) \cap (1..total)}

\* the k-th smallest member of a finite set of numbers
KthSmallest(S, k) == CHOOSE x \in S : Cardinality({y \in S : y < x}) = k - 1

\* the parser has consumed every term of the expression
Parsed == splitPc = "forEach" /\ partIdx > Len(parts)

\* the sorted index list has been built
Sorted ==
  splitPc \in {"save", "done"}
    \/ (splitPc = "failed" /\ splitResult = Failure(RangeError))

(***************************************************************************)
(* Properties of splitPdf and its page-range parser (SpecSplit).           *)
(***************************************************************************)

\* C1: the index list splitPdf builds from the expression is strictly
\* ascending, without duplicates, and every element i has 0 <= i < totalPages
C1_IndicesAscendingInRange ==
  Sorted =>
    /\ \A k \in 1..Len(indices) : 0 <= indices[k] /\ indices[k] < totalPages
    /\ \A k \in 1..(Len(indices) - 1) : indices[k] < indices[k + 1]
    /\ Range(indices) = Range(pagesToKeep)

\* the sort had work to do: the members were inserted out of order
C1_Witness ==
  /\ splitPc = "save" /\ Len(indices) >= 2 /\ indices # pagesToKeep
  /\ \E k \in 1..Len(parts) : forEachPart(parts[k], totalPages, <<>>) = <<>>

\* C2: on a loadable file splitPdf fails with the invalid-range error exactly
\* when the parsed index set is empty; while a valid index remains, no
\* malformed or out-of-bounds term makes it fail
C2_InvalidRangeIffEmpty ==
  /\ file.ok /\ (Sorted \/ splitPc = "failed") =>
       /\ splitResult = Failure(RangeError) <=> pagesToKeep = <<>>
       /\ splitPc = "failed" <=> pagesToKeep = <<>>
  /\ file.ok /\ pagesToKeep # <<>> => splitResult.kind # "error"

\* success although one term is malformed or out of bounds
C2_Witness ==
  /\ splitPc = "done" /\ splitResult.kind = "bytes" /\ Len(parts) >= 2
  /\ \E t \in RefTerms(rangeStr) : ~RefTermWellFormed(t)

\* C3: for a well-formed expression the parsed result is the reference set
\* { p-1 : a term covers p and 1 <= p <= totalPages }: ranges are clipped,
\* white space is ignored
C3_ParsedEqualsReference ==
  /\ Parsed /\ RefWellFormed(rangeStr) =>
       Range(pagesToKeep) = RefSet(rangeStr, totalPages)
  /\ Sorted /\ RefWellFormed(rangeStr) =>
       Range(indices) = RefSet(rangeStr, totalPages)

\* a range that reaches beyond the last page, written with white space
C3_Witness ==
  /\ splitPc = "done" /\ RefWellFormed(rangeStr) /\ includes(rangeStr, " ")
  /\ \E t \in RefTerms(rangeStr) :
       /\ \E h \in 1..Len(t) : RefIsRange(t, h)
       /\ RefCovers(t) \cap (1..totalPages) # {}
       /\ ~(RefCovers(t) \subseteq 1..totalPages)

\* C4 as stated: "1-3,5" with totalPages = 10 yields {0,1,2,3,4}
C4_Original ==
  Sorted /\ rangeStr = Str_1_3_5 /\ totalPages = 10 =>
    Range(indices) = {0, 1, 2, 3, 4}

\* C4 (amended): "1-3,5" with totalPages = 10 yields {0,1,2,4}, the 0-based
\* indices of pages 1, 2, 3 and 5
C4_Example_1_3_5 ==
  Sorted /\ rangeStr = Str_1_3_5 /\ totalPages = 10 =>
    indices = <<0, 1, 2, 4>>

C4_Witness ==
  splitPc = "done" /\ rangeStr = Str_1_3_5 /\ totalPages = 10

\* C5: a range term with start > end adds no index and raises nothing;
\* "5-2" on 10 pages ends in the invalid-range error, "5-2,3" succeeds with
\* page 3 only
C5_ReversedRangeYieldsNothing ==
  /\ [][(splitPc = "forEach" /\ partIdx <= Len(parts)
          /\ RefReversed(parts[partIdx]))
        => (pagesToKeep' = pagesToKeep /\ splitPc' = "forEach"
              /\ splitResult' = Pending)]_vars
  /\ [](rangeStr = Str_5_2 /\ totalPages = 10 /\ (Sorted \/ splitPc = "failed")
          => splitResult = Failure(RangeError))
  /\ [](rangeStr = Str_5_2_3 /\ totalPages = 10 /\ (Sorted \/ splitPc = "failed")
          => /\ indices = <<2>>
             /\ splitPc = "done" => splitResult = Bytes(<<SrcPage(1, 2)>>))

C5_Witness ==
  /\ splitPc = "done" /\ rangeStr = Str_5_2_3 /\ totalPages = 10
  /\ \E t \in RefTerms(rangeStr) : RefReversed(t)

\* C6: a term that does not parse is dropped without effect on the others:
\* the result is the union of what each term yields alone;
\* "1, abc, 3" with totalPages = 10 yields {0,2} and no error
C6_UnionOfTerms ==
  /\ Parsed \/ Sorted =>
       Range(pagesToKeep) =
         UNION {Range(forEachPart(t, totalPages, <<>>)) : t \in RefTerms(rangeStr)}
  /\ rangeStr = Str_1_abc_3 /\ totalPages = 10 =>
       /\ splitPc # "failed"
       /\ Sorted => indices = <<0, 2>>

C6_Witness ==
  /\ splitPc = "done" /\ rangeStr = Str_1_abc_3 /\ totalPages = 10
  /\ \E t \in RefTerms(rangeStr) : forEachPart(t, totalPages, <<>>) = <<>>

\* C7: when splitPdf succeeds the output has one page per parsed index, the
\* k-th page being the copy of the source page at the k-th smallest index;
\* 10 pages with "1-2,10" give pages 1, 2, 10 in that order
C7_SplitOutputPages ==
  /\ splitPc = "done" =>
       /\ splitResult.kind = "bytes"
       /\ Len(splitResult.pages) = Cardinality(Range(pagesToKeep))
       /\ \A k \in 1..Len(splitResult.pages) :
            splitResult.pages[k] = SrcPage(1, KthSmallest(Range(pagesToKeep), k))
  /\ splitPc = "done" /\ rangeStr = Str_1_2_10 /\ totalPages = 10 =>
       splitResult.pages = <<SrcPage(1, 0), SrcPage(1, 1), SrcPage(1, 9)>>

C7_Witness ==
  /\ splitPc = "done" /\ rangeStr = Str_1_2_10 /\ totalPages = 10
  /\ Len(splitResult.pages) = 3

\* the terms ps parsed one after the other into the set, as forEach does
RECURSIVE RefParse(_, _, _)
RefParse(ps, total, set) ==
  IF ps = <<>> THEN set
  ELSE RefParse(Tail(ps), total, forEachPart(Head(ps), total, set))

\* the rearrangements of the sequence ps
RefPermutations(ps) ==
  {[k \in 1..Len(ps) |-> ps[q[k]]] :
     q \in {f \in [1..Len(ps) -> 1..Len(ps)] :
              \A a, b \in 1..Len(ps) : a # b => f[a] # f[b]}}

\* C23: the parsed index set does not depend on the order of the terms nor
\* on overlap or repetition: every rearrangement of the terms, and the terms
\* with one of them repeated, give the same set, which holds each index
\* once; splitPdf emits the pages in ascending source order whatever the
\* order of the terms ("5,1-2" gives pages 1, 2, 5; "1-3,2-4" pages 1..4)
C23_OrderAndOverlapIrrelevant ==
  /\ Parsed \/ Sorted =>
       /\ Len(pagesToKeep) = Cardinality(Range(pagesToKeep))
       /\ \A q \in RefPermutations(parts) :
            /\ Range(RefParse(q, totalPages, <<>>)) = Range(pagesToKeep)
            /\ SortAsc(RefParse(q, totalPages, <<>>)) = SortAsc(pagesToKeep)
       /\ \A t \in Range(parts) :
            Range(RefParse(parts \o <<t>>, totalPages, <<>>)) = Range(pagesToKeep)
  /\ splitPc = "done" =>
       \A a, b \in 1..Len(splitResult.pages) :
         a < b => splitResult.pages[a].no < splitResult.pages[b].no
  /\ splitPc = "done" /\ rangeStr = Str_5_1_2 /\ totalPages = 10 =>
       splitResult.pages = <<SrcPage(1, 0), SrcPage(1, 1), SrcPage(1, 4)>>
  /\ splitPc = "done" /\ rangeStr = Str_1_3_2_4 /\ totalPages = 10 =>
       splitResult.pages =
         <<SrcPage(1, 0), SrcPage(1, 1), SrcPage(1, 2), SrcPage(1, 3)>>

\* the overlapping ranges "1-3,2-4" were parsed in both orders to the same
\* four indices and the four pages came out in ascending order
C23_Witness ==
  /\ splitPc = "done" /\ rangeStr = Str_1_3_2_4 /\ totalPages = 10
  /\ pagesToKeep = <<0, 1, 2, 3>>
  /\ RefParse(<<parts[2], parts[1]>>, totalPages, <<>>) = <<1, 2, 3, 0>>
  /\ Len(splitResult.pages) = 4

\* C24: a term that, trimmed, is not INTEGER or INTEGER-INTEGER (an integer
\* followed by other characters, two hyphens, a missing side, a negative
\* number, the empty term) contributes no index: every parsed index comes
\* from a well-formed term that covers it
C24_MalformedTermContributesNothing ==
  /\ \A k \in 1..Len(parts) :
       ~RefTermWellFormed(parts[k]) /\ partIdx > k =>
         forEachPart(parts[k], totalPages, <<>>) = <<>>
  /\ Parsed \/ Sorted =>
       Range(pagesToKeep) \subseteq RefSet(rangeStr, totalPages)

\* C26: splitPdf loads the file before it looks at the expression: a file
\* that does not parse fails with the load error whatever the expression
\* is, and nothing of the expression has been read by then; the
\* invalid-range error occurs only for a file that was loaded
C26_LoadBeforeRange ==
  /\ ~file.ok =>
       /\ splitPc \in {"load", "failed"}
       /\ parts = <<>> /\ partIdx = 0 /\ pagesToKeep = <<>>
       /\ splitPc = "failed" => splitResult = Failure(LoadError)
  /\ splitResult.kind = "error" /\ splitResult.error = RangeError =>
       /\ file.ok /\ srcPdf = load(1, file)
       /\ partIdx > Len(parts) /\ pagesToKeep = <<>>

\* a file that does not parse, with the reversed range "5-2" that yields no
\* index: the failure is the load error
C26_Witness ==
  /\ splitPc = "failed" /\ ~file.ok /\ rangeStr = Str_5_2
  /\ RefParse(split(rangeStr, ","), file.numPages, <<>>) = <<>>
  /\ splitResult = Failure(LoadError)

(***************************************************************************)
(* Properties of mergePdfs (SpecMerge).                                    *)
(***************************************************************************)
RECURSIVE RefMerged(_, _)
RefMerged(fs, f) ==
  IF f > Len(fs) THEN <<>>
  ELSE [i \in 1..fs[f].numPages |-> SrcPage(f, i - 1)] \o RefMerged(fs, f + 1)

RECURSIVE RefSumPages(_, _)
RefSumPages(fs, f) ==
  IF f > Len(fs) THEN 0 ELSE fs[f].numPages + RefSumPages(fs, f + 1)

FilesA3B2 == <<[ok |-> TRUE, numPages |-> 3], [ok |-> TRUE, numPages |-> 2]>>

RefAccepted(img) == img.type \in {"image/jpeg", "image/jpg", "image/png"}

RefAcceptedPositions(imgs) == {i \in 1..Len(imgs) : RefAccepted(imgs[i])}

\* one page per accepted image, in input order, sized to the image
RefImagePages(imgs) ==
  [k \in 1..Cardinality(RefAcceptedPositions(imgs)) |->
     LET i == KthSmallest(RefAcceptedPositions(imgs), k)
     IN [kind |-> "image", of |-> i, no |-> 0,
         width |-> imgs[i].width, height |-> imgs[i].height]]

IsProgress(e) == e.ev = "progress"

\* the reports invocation k has made so far, as pairs (current, total)
Reports(k) ==
  LET sel == SelectSeq(log[k], IsProgress)
  IN [j \in 1..Len(sel) |-> <<sel[j].page, sel[j].arg>>]

RefReports(n) == [j \in 1..n |-> <<j, n>>]

\* the number of pages of the document invocation k was given
RefN(k) == Len(call[k].file.pages)

\* page j of the output of invocation k is the raster of source page j
RefIsRasterOf(k, j) ==
  LET pg == compressResult[k].pages[j]
  IN /\ pg.kind = "raster" /\ pg.no = j
     /\ pg.image.frame = <<k, j>>

RefCompleted(k, j, p) ==
  \E q1, q2, q3 \in 1..(p - 1) :
    /\ q1 < q2 /\ q2 < q3
    /\ log[k][q1].ev = "render" /\ log[k][q1].page = j
    /\ log[k][q2].ev = "toDataURL" /\ log[k][q2].page = j
    /\ log[k][q3].ev = "addPage" /\ log[k][q3].page = j

RefIsPrefix(a, b) == Len(a) <= Len(b) /\ a = SubSeq(b, 1, Len(a))

\* C12 as stated: a report (i,N) is made only after page i has been
\* rendered, encoded and appended; the reported values increase from 1 to N
C12_Original ==
  \A k \in Invocations : \A p \in 1..Len(log[k]) :
    IsProgress(log[k][p]) =>
      /\ RefCompleted(k, log[k][p].page, p)
      /\ RefIsPrefix(Reports(k), RefReports(RefN(k)))

\* C12 (amended): a report (i,N) is made at the start of iteration i: after
\* pages 1..i-1 have been rendered, encoded and appended and before page i
\* is fetched; the reported values increase from 1 to N
C12_ReportAtIterationStart ==
  \A k \in Invocations : \A p \in 1..Len(log[k]) :
    IsProgress(log[k][p]) =>
      /\ \A j \in 1..(log[k][p].page - 1) : RefCompleted(k, j, p)
      /\ \A q \in 1..(p - 1) : log[k][q].page < log[k][p].page
      /\ RefIsPrefix(Reports(k), RefReports(RefN(k)))

\* (2,3) has been reported, page 1 is appended and page 2 is not yet fetched
C12_Witness ==
  /\ compressPc[1] = "getPage" /\ pageNo[1] = 2 /\ RefN(1) = 3
  /\ Reports(1) = <<<<1, 3>>, <<2, 3>>>>
  /\ Len(newPdfDoc[1]) = 1
  /\ \A q \in 1..Len(log[1]) : log[1][q] # Event("getPage", 2, 0)

\* the pages invocation k has fetched, and those it has released
Fetched(k) == {log[k][p].page : p \in {q \in 1..Len(log[k]) : log[k][q].ev = "getPage"}}

Released(k) == {log[k][p].page : p \in {q \in 1..Len(log[k]) : log[k][q].ev = "cleanup"}}

\* C16: compressPdf processes the pages one after the other: the pages
\* fetched so far are 1..i, all but possibly the current one are released,
\* so at most one page is fetched and not released, and the canvas holds at
\* most one rendered frame, that of the page fetched last
C16_OnePageAtATime ==
  \A k \in Invocations :
    /\ Cardinality(Fetched(k) \ Released(k)) <= 1
    /\ Fetched(k) \ Released(k) \subseteq {pageNo[k]}
    /\ \E n \in 0..numPages[k] : Fetched(k) = 1..n
    /\ Released(k) \subseteq Fetched(k)
    /\ canvas[CanvasOf(k)].frame # <<>> =>
         /\ canvas[CanvasOf(k)].frame[1] = k
         /\ \A j \in Fetched(k) : j <= canvas[CanvasOf(k)].frame[2]

\* page 2 is being rendered: it is fetched and not released, page 1 is
\* released
C16_Witness ==
  /\ compressPc[1] = "render" /\ pageNo[1] = 2
  /\ Fetched(1) = {1, 2} /\ Released(1) = {1}


\* what compressPdf returns for the arguments and environment c when it is
\* the only invocation, written from its contract: the first failing step
\* decides, otherwise one raster per source page
RefCompressAlone(k, c) ==
  LET n == Len(c.file.pages)
      vp(j) == getViewport(c.file.pages[j], ViewportScale)
  IN IF ~c.file.ok THEN Failure(LoadError)
     ELSE IF ~c.ctx THEN Failure(CanvasError)
     ELSE IF n >= 1 /\ c.onProgress = "throws" THEN Failure(CallbackError)
     ELSE IF c.fault.page \in 1..n THEN Failure(c.fault.step)
     ELSE IF n = 0 THEN Bytes(<<DefaultPage>>)
     ELSE Bytes([j \in 1..n |->
            RasterPage(j, vp(j),
              [frame |-> <<k, j>>, width |-> Pixels(vp(j).width),
               height |-> Pixels(vp(j).height), quality |-> c.quality])])

\* the page steps of invocation k so far: its trace without the reports
PageSteps(k) ==
  LET NotProgress(e) == ~IsProgress(e) IN SelectSeq(log[k], NotProgress)

\* C17: the progress report has no effect on the control flow: a finished
\* run with any registered callback has the outcome of the run on the same
\* input with no callback, and has made the page steps that lead to it
C17_CallbackHasNoEffect ==
  \A k \in Invocations :
    compressPc[k] \in {"done", "failed"} =>
      LET alone == RefCompressAlone(k, [call[k] EXCEPT !.onProgress = "none"])
      IN /\ compressResult[k] = alone
         /\ alone.kind = "bytes" =>
              Len(PageSteps(k)) = 6 * RefN(k) + 1


\* the steps of iteration j in the order of the contract: the report if a
\* callback is registered, the render at scale 3/2, the encoding at the
\* given quality, the embedding and the new page, the release
RefIteration(k, j) ==
  (IF call[k].onProgress = "none" THEN <<>>
   ELSE <<Event("progress", j, RefN(k))>>)
    \o <<Event("getPage", j, 0),
         Event("render", j, [num |-> 3, den |-> 2]),
         Event("toDataURL", j, call[k].quality),
         Event("embedJpg", j, 0),
         Event("addPage", j, 0),
         Event("cleanup", j, 0)>>

RECURSIVE RefIterations(_, _)
RefIterations(k, n) ==
  IF n = 0 THEN <<>> ELSE RefIterations(k, n - 1) \o RefIteration(k, n)

RefTrace(k) == RefIterations(k, RefN(k)) \o <<Event("save", 0, 0)>>

\* C20: within each iteration i the steps happen in this order, each once:
\* progress (i,N) if a callback is registered, render of page i at scale
\* 1.5, JPEG encoding at the given quality, embedding and one new page,
\* release of page i; the destination is serialized only after iteration N
C20_IterationOrder ==
  \A k \in Invocations :
    /\ RefIsPrefix(log[k], RefTrace(k))
    /\ compressPc[k] = "done" => log[k] = RefTrace(k)
    /\ Len(newPdfDoc[k]) =
         Cardinality({p \in 1..Len(log[k]) : log[k][p].ev = "addPage"})

\* a two-page document went through with a callback: 2 * 7 + 1 steps
C20_Witness ==
  /\ compressPc[1] = "done" /\ RefN(1) = 2 /\ call[1].onProgress = "records"
  /\ Len(log[1]) = 15 /\ log[1] = RefTrace(1)
  /\ log[1][15] = Event("save", 0, 0)


\* equality and order of lengths given as fractions
FracEq(a, b) == a.num * b.den = b.num * a.den

Whole(n) == [num |-> n, den |-> 1]

\* the pages invocation k has appended so far, with their source pages
Appended(k) == {<<newPdfDoc[k][j], call[k].file.pages[newPdfDoc[k][j].no]>> :
                  j \in 1..Len(newPdfDoc[k])}

\* C21 as stated: the page appended for a source page of size w x h has the
\* dimensions of the raster frame rendered for it, and these are 1.5 w and
\* 1.5 h: pixel buffer, output page and drawn image have the same size
C21_Original ==
  \A k \in Invocations : \A a \in Appended(k) :
    LET pg == a[1]  src == a[2]
    IN /\ FracEq(pg.width, Whole(pg.image.width))
       /\ FracEq(pg.height, Whole(pg.image.height))
       /\ FracEq(pg.width, [num |-> 3 * src[1], den |-> 2])
       /\ FracEq(pg.height, [num |-> 3 * src[2], den |-> 2])
       /\ pg.drawn.width = pg.width /\ pg.drawn.height = pg.height

\* C21 (amended): the appended page and the image drawn on it have exactly
\* the size 1.5 w x 1.5 h; the raster frame has these numbers cut to whole
\* pixels, so the three sizes agree exactly when 1.5 w and 1.5 h are whole
C21_PageSizedToViewport ==
  \A k \in Invocations : \A a \in Appended(k) :
    LET pg == a[1]  src == a[2]
    IN /\ FracEq(pg.width, [num |-> 3 * src[1], den |-> 2])
       /\ FracEq(pg.height, [num |-> 3 * src[2], den |-> 2])
       /\ pg.drawn = [x |-> 0, y |-> 0, width |-> pg.width, height |-> pg.height]
       /\ pg.image.width = (3 * src[1]) \div 2
       /\ pg.image.height = (3 * src[2]) \div 2
       /\ FracEq(pg.width, Whole(pg.image.width)) <=> (3 * src[1]) % 2 = 0
       /\ FracEq(pg.height, Whole(pg.image.height)) <=> (3 * src[2]) % 2 = 0

\* a page 3 wide went through: its raster is 4 pixels wide and its output
\* page 4.5 wide; a page 2 wide gave a raster and a page 3 wide
C21_Witness ==
  /\ compressPc[1] = "done" /\ RefN(1) = 2
  /\ call[1].file.pages = <<<<3, 2>>, <<2, 4>>>>
  /\ compressResult[1].pages[1].image.width = 4
  /\ compressResult[1].pages[1].width = [num |-> 9, den |-> 2]
  /\ compressResult[1].pages[2].image.width = 3
  /\ FracEq(compressResult[1].pages[2].width, Whole(3))


\* C27: when the 2D context cannot be acquired compressPdf fails before it
\* reports any progress and before it fetches or renders any page, but
\* after the source was loaded: a file that does not parse fails with the
\* load error even when the context is unavailable
C27_NoContextFailsBeforePages ==
  \A k \in Invocations :
    /\ call[k].called /\ ~call[k].ctx =>
         /\ log[k] = <<>> /\ newPdfDoc[k] = <<>> /\ pageNo[k] = 0
         /\ compressPc[k] \in {"load", "canvas", "failed"}
         /\ compressPc[k] = "failed" =>
              compressResult[k] =
                IF call[k].file.ok THEN Failure(CanvasError)
                ELSE Failure(LoadError)
    /\ compressResult[k] = Failure(CanvasError) =>
         /\ call[k].file.ok /\ ~call[k].ctx
         /\ numPages[k] = RefN(k)

\* a two-page document was loaded, a callback is registered, and the run
\* failed for lack of a context without a report or a page
C27_Witness ==
  /\ compressPc[1] = "failed" /\ compressResult[1] = Failure(CanvasError)
  /\ numPages[1] = 2 /\ call[1].onProgress = "records"
  /\ log[1] = <<>> /\ newPdfDoc[1] = <<>>

\* the number of times invocation k released a page
ReleaseCount(k) ==
  Cardinality({p \in 1..Len(log[k]) : log[k][p].ev = "cleanup"})

\* C28: whenever compressPdf has ended, with bytes or with a failure, the
\* pages whose render cache was released are exactly the pages appended to
\* the output, each released once: all of 1..N after a success, 1..i-1 and
\* not page i after a failure while page i was in work
C28_ReleasedAreAppended ==
  \A k \in Invocations :
    compressPc[k] \in {"done", "failed"} =>
      /\ Released(k) = {newPdfDoc[k][j].no : j \in 1..Len(newPdfDoc[k])}
      /\ ReleaseCount(k) = Cardinality(Released(k))
      /\ ReleaseCount(k) = Len(newPdfDoc[k])
      /\ compressPc[k] = "done" => Released(k) = 1..RefN(k)
      /\ compressPc[k] = "failed" =>
           /\ Released(k) = 1..(pageNo[k] - 1)
           /\ pageNo[k] \notin Released(k)

\* the render of page 2 of 3 failed: page 1 is appended and released, page
\* 2 was fetched and is not released
C28_Witness ==
  /\ compressPc[1] = "failed" /\ compressResult[1] = Failure("render")
  /\ RefN(1) = 3 /\ pageNo[1] = 2
  /\ Fetched(1) = {1, 2} /\ Released(1) = {1}
  /\ Len(newPdfDoc[1]) = 1

(***************************************************************************)
(* Properties of the four transformations together (SpecTransform).        *)
(***************************************************************************)
\* C13: a failing step (load in merge, split or compress; embed of an image
\* of an accepted type; render, encode or embed of a page in compress; range
\* validation in split) makes the whole operation fail and return no bytes:
\* bytes are returned only when no step failed, the operation stops at the
\* first failing input and a failure carries no page
C13_FailureFailsWhole ==
  /\ splitResult.kind = "bytes" => file.ok /\ pagesToKeep # <<>>
  /\ splitPc = "done" <=> splitResult.kind = "bytes"
  /\ splitPc = "failed" <=> splitResult.kind = "error"
  /\ splitPc = "failed" =>
       ~file.ok \/ (partIdx > Len(parts) /\ pagesToKeep = <<>>)
  /\ mergeResult.kind = "bytes" => \A f \in 1..Len(files) : files[f].ok
  /\ mergePc = "done" <=> mergeResult.kind = "bytes"
  /\ mergePc = "failed" <=> mergeResult.kind = "error"
  /\ mergePc = "failed" =>
       /\ ~files[fileIdx].ok
       /\ \A f \in 1..(fileIdx - 1) : files[f].ok
  /\ imagesResult.kind = "bytes" =>
       ~(badImage # 0 /\ RefAccepted(images[badImage]))
  /\ imagesPc = "done" <=> imagesResult.kind = "bytes"
  /\ imagesPc = "failed" <=> imagesResult.kind = "error"
  /\ imagesPc = "failed" => imageIdx = badImage
  /\ \A k \in Invocations :
       /\ compressResult[k].kind = "bytes" =>
            call[k].file.ok /\ call[k].fault.page \notin 1..RefN(k)
       /\ compressPc[k] = "done" <=> compressResult[k].kind = "bytes"
       /\ compressPc[k] = "failed" <=> compressResult[k].kind = "error"
       /\ compressResult[k].kind = "error" => compressResult[k].pages = <<>>
  /\ \A r \in {splitResult, mergeResult, imagesResult} :
       r.kind = "error" => r.pages = <<>>

\* embedding the raster of page 2 failed after page 1 had been appended
C13_Witness ==
  /\ compressPc[1] = "failed" /\ compressResult[1] = Failure("embed")
  /\ pageNo[1] = 2 /\ Len(newPdfDoc[1]) = 1
  /\ compressResult[1].pages = <<>>

\* C25: in every operation the destination document starts empty and
\* changes only by pages appended at its end, so at every step it is a
\* prefix of what is finally serialized; no page is removed, replaced or
\* reordered, and the inputs and the loaded source keep their pages
C25_AppendOnly ==
  /\ newPdf = <<>> /\ mergedPdf = <<>> /\ pdfDoc = <<>>
  /\ \A k \in Invocations : newPdfDoc[k] = <<>>
  /\ [][/\ RefIsPrefix(newPdf, newPdf')
        /\ RefIsPrefix(mergedPdf, mergedPdf')
        /\ RefIsPrefix(pdfDoc, pdfDoc')
        /\ \A k \in Invocations : RefIsPrefix(newPdfDoc[k], newPdfDoc'[k])
        /\ srcPdf # <<>> => srcPdf' = srcPdf
        /\ file' = file /\ files' = files /\ images' = images
        /\ \A k \in Invocations : call'[k].file = call[k].file]_vars
  /\ [](/\ splitPc = "done" => RefIsPrefix(newPdf, splitResult.pages)
        /\ mergePc = "done" => RefIsPrefix(mergedPdf, mergeResult.pages)
        /\ imagesPc = "done" => RefIsPrefix(pdfDoc, imagesResult.pages)
        /\ \A k \in Invocations :
             compressPc[k] = "done" =>
               RefIsPrefix(newPdfDoc[k], compressResult[k].pages))

\* imagesToPdf has appended the pages of two images and has a third to go
C25_Witness ==
  /\ imagesPc = "loop" /\ Len(images) = 3 /\ imageIdx = 3
  /\ Len(pdfDoc) = 2 /\ pdfDoc[1].of = 1 /\ pdfDoc[2].of = 2
  /\ Embeds(images[3])

(***************************************************************************)
(* Properties of the screens' handlers (SpecScreens).                      *)
(***************************************************************************)
\* C14: in every handler downloadPdf is called only after the operation
\* returned bytes, once and with exactly these bytes; when the operation
\* fails nothing is downloaded and the status becomes 'error'; the status
\* is 'success' only after the download
C14_DownloadOnlyAfterBytes ==
  /\ downloads # <<>> =>
       /\ Outcome.kind = "bytes"
       /\ Len(downloads) = 1
       /\ downloads[1].data = Outcome.pages
  /\ Outcome.kind = "error" =>
       /\ downloads = <<>> /\ status # "success"
       /\ handlerPc = "returned" => status = "error"
  /\ status = "success" => downloads # <<>> /\ Outcome.kind = "bytes"
  /\ status = "error" => downloads = <<>>
  /\ status \in {"idle", "processing", "success", "error"}

\* the compress screen downloaded the two rasters compressPdf returned
C14_Witness ==
  /\ handler = "handleCompress" /\ status = "success"
  /\ compressPc[1] = "done" /\ Len(compressResult[1].pages) = 2
  /\ downloads = <<[data |-> compressResult[1].pages, filename |-> "compressed_"]>>

(***************************************************************************)
(* Properties of interleaved invocations (SpecConcurrent).                 *)
(***************************************************************************)
\* C15: invocations whose steps interleave at their awaits share no mutable
\* state: whatever the other invocations do, each one ends with the outcome
\* and the progress reports it has when it runs alone
C15_InterleavingIndependent ==
  /\ \A k \in Invocations :
       compressPc[k] \in {"done", "failed"} =>
         /\ compressResult[k] = RefCompressAlone(k, call[k])
         /\ compressResult[k].kind = "bytes" /\ call[k].onProgress = "records" =>
              Reports(k) = RefReports(RefN(k))
  /\ mergePc = "done" => mergeResult = Bytes(RefMerged(files, 1))
  /\ \A k \in Invocations :
       compressPc[k] = "encode" => canvas[k].frame = <<k, pageNo[k]>>

\* both invocations are between two awaits of a page, on pages of
\* different sizes, while mergePdfs is half-way
C15_Witness ==
  /\ compressPc[1] = "encode" /\ compressPc[2] = "render"
  /\ pageNo[1] = 2 /\ pageNo[2] = 1
  /\ canvas[1].width # canvas[2].width
  /\ mergePc = "loop" /\ fileIdx = 2

(***************************************************************************)
(* Properties of a session on a screen (SpecSession).                      *)
(***************************************************************************)
\* the quality the contract gives a preset, in tenths
RefPresetQuality(p) ==
  CASE p = "low" -> 8 [] p = "medium" -> 6 [] p = "high" -> 4

\* C22: every page of a compressPdf run is encoded with exactly the quality
\* the caller passed; the compress screen passes 0.8 for 'low', 0.6 for
\* 'medium' and 0.4 for 'high', the preset selected when the run was
\* started, which stays the selected one while the run is in flight
C22_QualityPassedThrough ==
  \A k \in Invocations :
    /\ \A p \in 1..Len(log[k]) :
         log[k][p].ev = "toDataURL" => log[k][p].arg = call[k].quality
    /\ \A j \in 1..Len(newPdfDoc[k]) :
         newPdfDoc[k][j].image.quality = call[k].quality
    /\ screen = "CompressPdfScreen" /\ k <= Len(runs) =>
         /\ call[k].quality = RefPresetQuality(runs[k].preset)
         /\ runs[k].pc = "awaiting" => preset = runs[k].preset

\* a first run at 'low' gave two pages encoded at 0.8, a second run at
\* 'high' two pages encoded at 0.4
C22_Witness ==
  /\ Len(runs) = 2 /\ runs[1].preset = "low" /\ runs[2].preset = "high"
  /\ compressPc[1] = "done" /\ compressPc[2] = "done"
  /\ Len(compressResult[1].pages) = 2 /\ Len(compressResult[2].pages) = 2
  /\ \A j \in 1..2 : compressResult[1].pages[j].image.quality = 8
  /\ \A j \in 1..2 : compressResult[2].pages[j].image.quality = 4

\* the runs whose transformation has been started and has not ended
InFlight ==
  {i \in 1..Len(runs) :
     runs[i].pc = "awaiting" /\ RunOutcome(i).kind = "pending"}

\* C29: on each of the four screens, whatever the user does, at most one
\* transformation started by the screen is in flight at a time, and status
\* is 'processing' as long as one is in flight
C29_OneRunWhileProcessing ==
  /\ Cardinality(InFlight) <= 1
  /\ InFlight # {} => status = "processing"

(***************************************************************************)
(* Termination (SpecSplitLoop).                                            *)
(***************************************************************************)
\* C18: every invocation eventually ends with exactly one outcome, bytes or
\* a failure; in particular the range loop of the parser terminates
C18_EveryInvocationEnds ==
  /\ <>(splitPc \in {"done", "failed"})
  /\ [](splitPc = "done" <=> splitResult.kind = "bytes")
  /\ [](splitPc = "failed" <=> splitResult.kind = "error")

C30_ProcessingEnds ==
  /\ handlerPc \in {"returned", "unhandled"} /\ hasFile =>
       status \in {"success", "error"}
  /\ remotePc = "failed" /\ handlerPc # "awaiting" => status = "error"

=============================================================================
